---- MODULE Spec2Model ----
(***************************************************************************)
(* Job claim queue of cl_server_shared: SQLAlchemyJobRepository            *)
(* (src/src/cl_server_shared/adapters.py) over the jobs table.             *)
(*                                                                         *)
(* Every database statement followed by a commit is one atomic step.  A    *)
(* call that issues a read and then a write (fetch_next_job, update_job    *)
(* with status processing) is split at the statement boundary, so the      *)
(* calls of different workers interleave there.                            *)
(***************************************************************************)
EXTENDS Integers, FiniteSets, Sequences, TLC

\* ------------------------------------------------------------------ bounds
MaxTime == 2
MaxOps == 4
NumCallers == 3
MaxFieldOps == 3
MaxObjs == 2
MaxCalls == 4
MaxStorageOps == 3
MaxDays == 2
MaxCallbacks == 2
ChunkSize == 2

\* A nullable column holding no value (started_at, completed_at).
NULL == -1

JobIds == {"j1", "j2"}
TaskTypes == {"resize", "convert"}
Statuses == {"queued", "processing", "completed", "error"}
Workers == 1..2
Callers == 1..NumCallers
Times == 1..MaxTime

VARIABLES
    jobs,      \* the jobs table: a function from the job_ids present to rows
    now,       \* int(time.time() * 1000)
    pc,        \* where each worker stands in the call it is making
    call,      \* the locals of that call
    ret,       \* what each worker's last fetch_next_job returned
    last,      \* the call that returned last, with its arguments and result
    dirty,     \* history: another call wrote the table since this call's read
    stale,     \* history: the row this call selected has been deleted since
    claims,    \* history: how many fetch_next_job calls returned each job_id
    deleted,   \* history: the job_ids deleted so far
    reused,    \* history: a status was set back to queued, or a deleted id re-added
    ops,       \* history: how many calls have been made
    bc,        \* the broadcaster: its kind and whether it is connected
    events,    \* the log of publish_event calls, each delivered or not
    nrows,     \* history: how many rows of each job_id the table holds
    mqtt,      \* the broadcaster objects, the module globals, the last call
    storage    \* the storage directory tree and the last call on it

vars == <<jobs, now, pc, call, ret, last, dirty, stale, claims, deleted, reused, ops,
          bc, events, nrows, mqtt, storage>>

\* The variables of the job repository.
queueVars == <<jobs, now, pc, call, ret, last, dirty, stale, claims, deleted, reused,
               ops, bc, events, nrows>>

\* No broadcaster object, both module globals None, no call made.  objs are
\* the objects constructed so far, an object's index its identity; made is
\* history: who constructed each and for which configuration; cached is
\* mqtt._broadcaster, inst and config are mqtt_instance._broadcaster and
\* _broadcaster_config (0 and NoConfig for None); sent is what the broker got.
NoConfig == [broadcast_type |-> "", broker |-> "", port |-> 0]
NoResult ==
    [op |-> "none", who |-> 0, config |-> NoConfig, env |-> "", result |-> "none",
     seq |-> 0]
NoBroadcasters ==
    [objs |-> <<>>, made |-> <<>>, cached |-> 0, inst |-> 0, config |-> NoConfig,
     sent |-> <<>>, res |-> NoResult]

\* The storage after JobStorageService(base_dir): base_dir (the empty path)
\* exists and is empty; no call made.  dirs is the set of directories, files
\* maps the path of each regular file to its bytes, paths are relative to
\* base_dir.
NoSaved ==
    [op |-> "none", job_id |-> "", relative_path |-> <<>>, kind |-> "",
     source |-> <<>>, mkdirs |-> FALSE, result |-> "none", size |-> 0, hash |-> 0,
     path |-> <<>>, count |-> 0, days |-> 0, seq |-> 0]
NoFiles ==
    [dirs |-> {<<>>}, files |-> <<>>, res |-> NoSaved,
     mtime |-> [d \in {<<>>} |-> 0], time |-> 0]

\* ------------------------------------------------------------ data and helpers

NoCall == [sel |-> "", types |-> {}, kwargs |-> <<>>, rd |-> NULL]
NoRet == [kind |-> "none", job_id |-> "", status |-> "", task_type |-> "",
          types |-> {}, sel |-> ""]
NoLast == [op |-> "none", job_id |-> "", kwargs |-> <<>>, result |-> "none",
           at |-> 0, seq |-> 0, by |-> 0, got |-> NoRet]

\* fetch_next_job(task_types) returns None (sel: the job_id its selection read
\* had found, "" when it found none), or raises.
Absent(task_types, sel) == [NoRet EXCEPT !.kind = "absent", !.types = task_types, !.sel = sel]
Raised(task_types, sel) == [NoRet EXCEPT !.kind = "raised", !.types = task_types, !.sel = sel]

\* ------------------------------------------------------- JSON-like values

\* A JSON-like value as Python holds it; a map keeps its pairs in insertion
\* order.  JNull is None.
JVal(tag, s, n, items) == [tag |-> tag, s |-> s, n |-> n, items |-> items]
JNull == JVal("null", "", 0, <<>>)
JStr(s) == JVal("str", s, 0, <<>>)
JNum(n) == JVal("num", "", n, <<>>)
JList(items) == JVal("list", "", 0, items)
JMap(pairs) == JVal("map", "", 0, pairs)
Pair(key, val) == [key |-> key, val |-> val]

\* Python truth value: None, 0, "", [] and {} are false.
Truthy(v) ==
    CASE v.tag = "null" -> FALSE
      [] v.tag = "num" -> v.n # 0
      [] v.tag = "str" -> v.s # ""
      [] OTHER -> v.items # <<>>

\* The text json.dumps writes, as its sequence of tokens.
Tok(k, s, n) == [k |-> k, s |-> s, n |-> n]

RECURSIVE Dumps(_)
RECURSIVE DumpsItems(_, _)
RECURSIVE DumpsPairs(_, _)

Dumps(v) ==
    CASE v.tag = "null" -> <<Tok("null", "", 0)>>
      [] v.tag = "num" -> <<Tok("num", "", v.n)>>
      [] v.tag = "str" -> <<Tok("str", v.s, 0)>>
      [] v.tag = "list" ->
            <<Tok("[", "", 0)>> \o DumpsItems(v.items, 1) \o <<Tok("]", "", 0)>>
      [] v.tag = "map" ->
            <<Tok("{", "", 0)>> \o DumpsPairs(v.items, 1) \o <<Tok("}", "", 0)>>

DumpsItems(items, i) ==
    IF i > Len(items) THEN <<>>
    ELSE (IF i > 1 THEN <<Tok(",", "", 0)>> ELSE <<>>)
            \o Dumps(items[i]) \o DumpsItems(items, i + 1)

DumpsPairs(pairs, i) ==
    IF i > Len(pairs) THEN <<>>
    ELSE (IF i > 1 THEN <<Tok(",", "", 0)>> ELSE <<>>)
            \o <<Tok("str", pairs[i].key, 0), Tok(":", "", 0)>>
            \o Dumps(pairs[i].val) \o DumpsPairs(pairs, i + 1)

\* json.loads on a text json.dumps wrote: the value parsed from token i on,
\* and the position after it.
RECURSIVE ParseValue(_, _)
RECURSIVE ParseItems(_, _, _)
RECURSIVE ParsePairs(_, _, _)

ParseValue(ts, i) ==
    CASE ts[i].k = "null" -> [val |-> JNull, next |-> i + 1]
      [] ts[i].k = "num" -> [val |-> JNum(ts[i].n), next |-> i + 1]
      [] ts[i].k = "str" -> [val |-> JStr(ts[i].s), next |-> i + 1]
      [] ts[i].k = "[" -> ParseItems(ts, i + 1, <<>>)
      [] ts[i].k = "{" -> ParsePairs(ts, i + 1, <<>>)

ParseItems(ts, i, acc) ==
    IF ts[i].k = "]" THEN [val |-> JList(acc), next |-> i + 1]
    ELSE IF ts[i].k = "," THEN ParseItems(ts, i + 1, acc)
    ELSE LET r == ParseValue(ts, i)
         IN ParseItems(ts, r.next, Append(acc, r.val))

ParsePairs(ts, i, acc) ==
    IF ts[i].k = "}" THEN [val |-> JMap(acc), next |-> i + 1]
    ELSE IF ts[i].k = "," THEN ParsePairs(ts, i + 1, acc)
    ELSE LET r == ParseValue(ts, i + 2)
         IN ParsePairs(ts, r.next, Append(acc, Pair(ts[i].s, r.val)))

Loads(ts) == ParseValue(ts, 1).val

\* A text column holding no text (NULL); json.dumps never writes an empty text.
NoText == <<>>

\* error_message = None
NoMessage == "None"

\* json.dumps(task_output) if task_output else None
StoredOutput(task_output) == IF Truthy(task_output) THEN Dumps(task_output) ELSE NoText

\* LibraryJob(job_id, task_type, params, status, ...) with the fields left at
\* their defaults.
LibraryJob(job_id, task_type, status) ==
    [job_id |-> job_id, task_type |-> task_type, params |-> JMap(<<>>),
     status |-> status, progress |-> 0, task_output |-> JNull,
     error_message |-> NoMessage]

\* DatabaseJob(...) as add_job builds it from the library job; started_at and
\* completed_at are not given.
DatabaseJob(job, created_at) ==
    [task_type |-> job.task_type, params |-> Dumps(job.params),
     status |-> job.status, progress |-> job.progress,
     created_at |-> created_at, started_at |-> NULL, completed_at |-> NULL,
     task_output |-> StoredOutput(job.task_output),
     error_message |-> job.error_message, retry_count |-> 0, max_retries |-> 3]

\* The row add_job inserts for a job that carries a task type and a status only.
NewRow(task_type, status, created_at) ==
    DatabaseJob(LibraryJob("", task_type, status), created_at)

\* _db_to_library_job: the fields of the row the caller receives.
DbToLibraryJob(job_id, row, task_types) ==
    [kind |-> "job", job_id |-> job_id, status |-> row.status,
     task_type |-> row.task_type, types |-> task_types, sel |-> job_id,
     params |-> IF row.params # NoText THEN Loads(row.params) ELSE JMap(<<>>),
     progress |-> row.progress,
     task_output |-> IF row.task_output # NoText THEN Loads(row.task_output) ELSE JNull,
     error_message |-> row.error_message]

Restrict(f, S) == [k \in (DOMAIN f) \cap S |-> f[k]]

\* The keyword arguments update_job copies into the UPDATE as they are.
PassedThrough == {"progress", "error_message",
                  "retry_count", "started_at", "completed_at"}

\* The columns update_job takes from kwargs: those copied as they are, and
\* task_output serialised.
Copied(kwargs) ==
    Restrict(kwargs, PassedThrough)
        @@ (IF "task_output" \in DOMAIN kwargs
            THEN [task_output |-> StoredOutput(kwargs.task_output)] ELSE <<>>)

\* update_values with the started_at guard dropped: every update to processing
\* stamps started_at.
UpdateValuesAlwaysStart(kwargs, started_at, t) ==
    LET status == Restrict(kwargs, {"status"})
        auto == IF "status" \notin DOMAIN kwargs THEN <<>>
                ELSE IF kwargs.status = "processing" THEN [started_at |-> t]
                ELSE IF kwargs.status \in {"completed", "error"}
                     THEN [completed_at |-> t]
                ELSE <<>>
    IN Copied(kwargs) @@ auto @@ status

\* update_values with the completed_at branch dropped.
UpdateValuesNoCompleted(kwargs, started_at, t) ==
    LET status == Restrict(kwargs, {"status"})
        auto == IF "status" \notin DOMAIN kwargs THEN <<>>
                ELSE IF kwargs.status = "processing"
                     THEN (IF started_at = NULL THEN [started_at |-> t] ELSE <<>>)
                ELSE <<>>
    IN Copied(kwargs) @@ auto @@ status

\* update_values with a completed status also setting progress to 100.
UpdateValuesCompletes(kwargs, started_at, t) ==
    LET status == Restrict(kwargs, {"status"})
        auto == IF "status" \notin DOMAIN kwargs THEN <<>>
                ELSE IF kwargs.status = "processing"
                     THEN (IF started_at = NULL THEN [started_at |-> t] ELSE <<>>)
                ELSE IF kwargs.status = "completed"
                     THEN [completed_at |-> t, progress |-> 100]
                ELSE IF kwargs.status = "error"
                     THEN [completed_at |-> t]
                ELSE <<>>
    IN Copied(kwargs) @@ auto @@ status

\* update_values with a completed status also clearing error_message.
UpdateValuesClearsError(kwargs, started_at, t) ==
    LET status == Restrict(kwargs, {"status"})
        auto == IF "status" \notin DOMAIN kwargs THEN <<>>
                ELSE IF kwargs.status = "processing"
                     THEN (IF started_at = NULL THEN [started_at |-> t] ELSE <<>>)
                ELSE IF kwargs.status = "completed"
                     THEN [completed_at |-> t, error_message |-> NoMessage]
                ELSE IF kwargs.status = "error"
                     THEN [completed_at |-> t]
                ELSE <<>>
    IN Copied(kwargs) @@ auto @@ status

\* update_values, built in the order of the code: status and the timestamp it
\* triggers first, the explicitly passed columns last (a later key overwrites).
UpdateValues(kwargs, started_at, t) ==
    LET status == Restrict(kwargs, {"status"})
        auto == IF "status" \notin DOMAIN kwargs THEN <<>>
                ELSE IF kwargs.status = "processing"
                     THEN (IF started_at = NULL THEN [started_at |-> t] ELSE <<>>)
                ELSE IF kwargs.status \in {"completed", "error"}
                     THEN [completed_at |-> t]
                ELSE <<>>
    IN Copied(kwargs) @@ auto @@ status

\* UPDATE jobs SET values WHERE job_id = :job_id, on one row.
ApplyValues(row, values) ==
    [f \in DOMAIN row |-> IF f \in DOMAIN values THEN values[f] ELSE row[f]]

\* The selection with the task_type filter dropped.
CandidatesAnyType(table, task_types) ==
    {j \in DOMAIN table : table[j].status = "queued"}

\* SELECT ... WHERE status = 'queued' AND task_type IN (:task_types)
Candidates(table, task_types) ==
    {j \in DOMAIN table : table[j].status = "queued" /\ table[j].task_type \in task_types}

\* The selection with ORDER BY dropped: any candidate.
OldestAny(table, task_types) == Candidates(table, task_types)

\* ... ORDER BY created_at LIMIT 1: a row of the least created_at (rows with
\* equal created_at come in no defined order).
Oldest(table, task_types) ==
    {j \in Candidates(table, task_types) :
        \A k \in Candidates(table, task_types) : table[j].created_at <= table[k].created_at}

\* The claiming UPDATE with the status condition dropped.
ClaimMatchesNoLock(table, job_id) == {j \in DOMAIN table : j = job_id}

\* UPDATE ... WHERE job_id = :job_id AND status = 'queued': the rows it matches.
ClaimMatches(table, job_id) ==
    {j \in DOMAIN table : j = job_id /\ table[j].status = "queued"}

\* The claiming UPDATE writing the status only.
ClaimValuesNoStamp(t) == [status |-> "processing"]

\* The claiming UPDATE writing started_at only.
ClaimValuesKeepQueued(t) == [started_at |-> t]

\* .values(status="processing", started_at=current_time)
ClaimValues(t) == [status |-> "processing", started_at |-> t]

\* --------------------------------------------------------------- histories

InCall(w) == pc[w] # "idle"

\* A committed write by worker w's call (w = 0: by a caller that is no worker);
\* gone is the set of job_ids it deleted, back the set of workers that return.
NoteWrite(w, gone, back) ==
    /\ dirty' = [v \in DOMAIN pc |-> IF v \in back THEN FALSE
                                   ELSE IF v = w THEN dirty[v]
                                   ELSE dirty[v] \/ InCall(v)]
    /\ stale' = [v \in DOMAIN pc |-> IF v \in back THEN FALSE
                                   ELSE stale[v] \/ (InCall(v) /\ call[v].sel \in gone)]

\* Worker w returns without having written.
NoteReturn(w) ==
    /\ dirty' = [dirty EXCEPT ![w] = FALSE]
    /\ stale' = [stale EXCEPT ![w] = FALSE]

\* The record of a call by w (w = 0: a caller that is no worker): its arguments,
\* its result, the time of its write and its number among the calls made.
MkLast(w, op, job_id, kwargs, result) ==
    [op |-> op, job_id |-> job_id, kwargs |-> kwargs, result |-> result,
     at |-> now, seq |-> IF w = 0 THEN ops + 1 ELSE ops, by |-> w, got |-> NoRet]

Bool(b) == IF b THEN "true" ELSE "false"

Inc(n) == IF n < 2 THEN n + 1 ELSE n

\* ------------------------------------------------------------------ Init

Init ==
    /\ jobs = <<>>
    /\ now = 1
    /\ pc = [w \in Workers |-> "idle"]
    /\ call = [w \in Workers |-> NoCall]
    /\ ret = [w \in Workers |-> NoRet]
    /\ last = NoLast
    /\ dirty = [w \in Workers |-> FALSE]
    /\ stale = [w \in Workers |-> FALSE]
    /\ claims = [j \in JobIds |-> 0]
    /\ deleted = {}
    /\ reused = FALSE
    /\ ops = 0
    /\ bc = [kind |-> "mqtt", connected |-> TRUE]
    /\ events = <<>>
    /\ nrows = [j \in JobIds |-> 0]
    /\ mqtt = NoBroadcasters
    /\ storage = NoFiles

\* ------------------------------------------------------------------ clock

Tick ==
    /\ now < MaxTime
    /\ now' = now + 1
    /\ UNCHANGED <<jobs, pc, call, ret, last, dirty, stale, claims, deleted, reused, ops,
                   bc, mqtt, storage, events, nrows>>

\* ---------------------------------------------------------------- add_job

\* session.add(db_job); session.commit(): the row is inserted with created_at = now.
AddJobRecord(job) ==
    /\ job.job_id \notin DOMAIN jobs
    /\ jobs' = (job.job_id :> DatabaseJob(job, now)) @@ jobs
    /\ reused' = (reused \/ job.job_id \in deleted)
    /\ nrows' = [nrows EXCEPT ![job.job_id] = @ + 1]
    /\ last' = MkLast(0, "add", job.job_id, job, job.job_id)
    /\ NoteWrite(0, {}, {})
    /\ UNCHANGED <<now, pc, call, ret, claims, deleted, bc, mqtt, storage, events>>
    /\ ops' = ops + 1

\* add_job of a job that carries a task type and a status only.
AddJob(job_id, task_type, status) == AddJobRecord(LibraryJob(job_id, task_type, status))

\* The unique index on job_id rejects the insert: commit raises IntegrityError.
\* add_job with the unique constraint on job_id missing: a second row is stored.
AddJobDuplicateInserts(job_id) ==
    /\ job_id \in DOMAIN jobs
    /\ nrows' = [nrows EXCEPT ![job_id] = @ + 1]
    /\ last' = MkLast(0, "add", job_id, <<>>, job_id)
    /\ UNCHANGED <<jobs, now, pc, call, ret, dirty, stale, claims, deleted, reused,
                   bc, mqtt, storage, events>>
    /\ ops' = ops + 1

\* add_job of a job_id the table holds: the INSERT violates the unique
\* constraint and session.commit raises.
AddJobDuplicate(job_id) ==
    /\ job_id \in DOMAIN jobs
    /\ last' = MkLast(0, "add", job_id, <<>>, "IntegrityError")
    /\ UNCHANGED <<jobs, now, pc, call, ret, dirty, stale, claims, deleted, reused,
                   bc, mqtt, storage, events, nrows>>
    /\ ops' = ops + 1

\* ------------------------------------------------------------- delete_job

\* delete_job that reports the deletion and keeps the row.
DeleteJobKeepsRow(job_id) ==
    /\ job_id \in DOMAIN jobs
    /\ last' = MkLast(0, "delete", job_id, <<>>, Bool(TRUE))
    /\ UNCHANGED <<jobs, now, pc, call, ret, dirty, stale, claims, deleted, reused,
                   bc, mqtt, storage, events, nrows>>
    /\ ops' = ops + 1

\* delete_job of a stored job: session.delete, commit, return True.
DeleteJob(job_id) ==
    /\ job_id \in DOMAIN jobs
    /\ jobs' = Restrict(jobs, DOMAIN jobs \ {job_id})
    /\ deleted' = deleted \cup {job_id}
    /\ nrows' = [nrows EXCEPT ![job_id] = @ - 1]
    /\ last' = MkLast(0, "delete", job_id, <<>>, Bool(TRUE))
    /\ NoteWrite(0, {job_id}, {})
    /\ UNCHANGED <<now, pc, call, ret, claims, reused, bc, mqtt, storage, events>>
    /\ ops' = ops + 1

DeleteJobMissing(job_id) ==
    /\ job_id \notin DOMAIN jobs
    /\ last' = MkLast(0, "delete", job_id, <<>>, Bool(FALSE))
    /\ UNCHANGED <<jobs, now, pc, call, ret, dirty, stale, claims, deleted, reused,
                   bc, mqtt, storage, events, nrows>>
    /\ ops' = ops + 1

\* ---------------------------------------------------------------- get_job

\* select(DatabaseJob).where(job_id == :job_id); the library job, or None.
GetJob(job_id) ==
    /\ last' = [MkLast(0, "get", job_id, <<>>,
                       IF job_id \in DOMAIN jobs THEN "job" ELSE "None")
                EXCEPT !.got = IF job_id \in DOMAIN jobs
                               THEN DbToLibraryJob(job_id, jobs[job_id], {})
                               ELSE NoRet]
    /\ UNCHANGED <<jobs, now, pc, call, ret, dirty, stale, claims, deleted, reused,
                   bc, mqtt, storage, events, nrows>>
    /\ ops' = ops + 1

\* The broker connection is made or lost: MQTTBroadcaster._on_connect, disconnect.
ConnectionChange ==
    /\ bc.kind = "mqtt"
    /\ bc' = [bc EXCEPT !.connected = ~@]
    /\ UNCHANGED <<jobs, now, pc, call, ret, last, dirty, stale, claims, deleted,
                   reused, ops, events, nrows, mqtt, storage>>

\* ------------------------------------------------------------- update_job

\* -------------------------------------------------------------- broadcaster

\* get_broadcaster: an MQTTBroadcaster, connected or not, when BROADCAST_TYPE
\* is "mqtt", a NoOpBroadcaster otherwise.
Broadcasters ==
    {[kind |-> "mqtt", connected |-> TRUE], [kind |-> "mqtt", connected |-> FALSE],
     [kind |-> "noop", connected |-> FALSE]}

\* No event sent, nothing raised.
Silent == [raised |-> FALSE, sent |-> <<>>]

\* MQTTBroadcaster.publish_event(event_type, job_id, data): the event is
\* published, or client.publish fails and the method returns False.
PublishEvent(event) ==
    {[raised |-> FALSE, sent |-> <<[event EXCEPT !.delivered = d]>>] : d \in BOOLEAN}

\* _broadcast_progress without the check of broadcaster.connected.
BroadcastProgressUnchecked(job_id, kwargs) ==
    PublishEvent([event_type |-> IF "status" \in DOMAIN kwargs
                                 THEN kwargs.status ELSE "processing",
                  job_id |-> job_id, progress |-> kwargs.progress,
                  delivered |-> FALSE])

\* _broadcast_progress(job_id, status or "processing", progress).  It reads
\* self.broadcaster.connected first, an attribute NoOpBroadcaster does not have.
BroadcastProgress(job_id, kwargs) ==
    IF bc.kind = "noop" THEN {[raised |-> TRUE, sent |-> <<>>]}
    ELSE IF ~bc.connected THEN {Silent}
    ELSE PublishEvent([event_type |-> IF "status" \in DOMAIN kwargs
                                      THEN kwargs.status ELSE "processing",
                       job_id |-> job_id, progress |-> kwargs.progress,
                       delivered |-> FALSE])

\* shared_db's _broadcast_progress with the event type fixed to processing.
BroadcastProgressSharedNoStatus(job_id, kwargs) ==
    PublishEvent([event_type |-> "processing",
                  job_id |-> job_id, progress |-> kwargs.progress,
                  delivered |-> FALSE])

\* shared_db's _broadcast_progress(job_id, status or "processing", progress):
\* the payload is built and handed to the broadcaster's publish_event, with
\* no look at a connected flag.
BroadcastProgressShared(job_id, kwargs) ==
    PublishEvent([event_type |-> IF "status" \in DOMAIN kwargs
                                 THEN kwargs.status ELSE "processing",
                  job_id |-> job_id, progress |-> kwargs.progress,
                  delivered |-> FALSE])

\* The broadcaster the repository of shared_db holds: the library's.
SharedBroadcaster == [kind |-> "lib", connected |-> FALSE]

\* What callers pass to update_job: a status, an explicit timestamp (the
\* database-specific fields are passed through, None included), or nothing the
\* code recognises.
ExplicitTimes == {0, NULL}
UpdateInputs ==
    {[status |-> s] : s \in Statuses}
        \cup {[started_at |-> t] : t \in ExplicitTimes}
        \cup {[completed_at |-> t] : t \in ExplicitTimes}
        \cup {<<>>}

NeedsRead(kwargs) == "status" \in DOMAIN kwargs /\ kwargs.status = "processing"

\* result.rowcount taken to be 1 whether or not a row matched.
RowCountOne(table, job_id) == 1

\* result.rowcount of UPDATE ... WHERE job_id = :job_id
RowCount(table, job_id) == IF job_id \in DOMAIN table THEN 1 ELSE 0

\* update(DatabaseJob).where(job_id == :job_id).values(**update_values); commit;
\* return rowcount > 0.  rd is what the read of started_at returned (NULL when
\* the call made no read); back is the set of workers that return with it.
WriteUpdate(w, job_id, kwargs, rd, back) ==
    LET values == UpdateValues(kwargs, rd, now)
        found == job_id \in DOMAIN jobs
    IN IF DOMAIN values = {}
       THEN /\ last' = MkLast(w, "update", job_id, kwargs, Bool(FALSE))
            /\ dirty' = [v \in DOMAIN pc |-> IF v \in back THEN FALSE ELSE dirty[v]]
            /\ stale' = [v \in DOMAIN pc |-> IF v \in back THEN FALSE ELSE stale[v]]
            /\ UNCHANGED <<jobs, reused, events>>
       ELSE /\ jobs' = IF found THEN [jobs EXCEPT ![job_id] = ApplyValues(@, values)]
                       ELSE jobs
            /\ reused' = (reused \/ (/\ found
                                     /\ "status" \in DOMAIN values
                                     /\ values.status = "queued"
                                     /\ jobs[job_id].status # "queued"))
            /\ \E o \in (IF /\ RowCount(jobs, job_id) > 0
                            /\ "progress" \in DOMAIN kwargs
                            /\ kwargs.progress # NULL
                         THEN (IF bc = SharedBroadcaster
                               THEN BroadcastProgressShared(job_id, kwargs)
                               ELSE BroadcastProgress(job_id, kwargs))
                         ELSE {Silent}) :
                  /\ events' = events \o o.sent
                  /\ last' = MkLast(w, "update", job_id, kwargs,
                                    IF o.raised THEN "AttributeError"
                                    ELSE Bool(RowCount(jobs, job_id) > 0))
            /\ IF found
               THEN NoteWrite(w, {}, back)
               ELSE /\ dirty' = [v \in DOMAIN pc |-> IF v \in back THEN FALSE ELSE dirty[v]]
                    /\ stale' = [v \in DOMAIN pc |-> IF v \in back THEN FALSE ELSE stale[v]]

\* update_job whose status is not processing: one statement, no read before it.
UpdateJob(job_id, kwargs) ==
    /\ ~NeedsRead(kwargs)
    /\ WriteUpdate(0, job_id, kwargs, NULL, {})
    /\ UNCHANGED <<now, pc, call, ret, claims, deleted, bc, mqtt, storage, nrows>>
    /\ ops' = ops + 1

\* update_job with status processing, first statement: select(started_at);
\* scalar_one_or_none() is None when the job is missing.
UpdateRead(w, job_id, kwargs) ==
    /\ pc[w] = "idle"
    /\ NeedsRead(kwargs)
    /\ pc' = [pc EXCEPT ![w] = "upd_read"]
    /\ call' = [call EXCEPT ![w] = [NoCall EXCEPT
                    !.sel = job_id, !.kwargs = kwargs,
                    !.rd = IF job_id \in DOMAIN jobs THEN jobs[job_id].started_at ELSE NULL]]
    /\ NoteReturn(w)
    /\ UNCHANGED <<jobs, now, ret, last, claims, deleted, reused, bc, mqtt, storage, events, nrows>>
    /\ ops' = ops + 1

\* update_job with status processing, second statement: the UPDATE and commit.
UpdateWrite(w) ==
    /\ pc[w] = "upd_read"
    /\ WriteUpdate(w, call[w].sel, call[w].kwargs, call[w].rd, {w})
    /\ pc' = [pc EXCEPT ![w] = "idle"]
    /\ call' = [call EXCEPT ![w] = NoCall]
    /\ UNCHANGED <<now, ret, claims, deleted, ops, bc, mqtt, storage, nrows>>

\* --------------------------------------------------------- fetch_next_job

FetchInputs == {{}, {"resize"}, TaskTypes}

\* An empty task_types read as "any task type": the selection runs unfiltered.
FetchEmptyAsWildcard(w, task_types) ==
    /\ pc[w] = "idle"
    /\ task_types = {}
    /\ \E j \in Oldest(jobs, TaskTypes) :
          call' = [call EXCEPT ![w] = [NoCall EXCEPT !.sel = j, !.types = task_types]]
    /\ pc' = [pc EXCEPT ![w] = "selected"]
    /\ ret' = [ret EXCEPT ![w] = NoRet]
    /\ NoteReturn(w)
    /\ UNCHANGED <<jobs, now, last, claims, deleted, reused, bc, mqtt, storage, events, nrows>>
    /\ ops' = ops + 1

\* if not task_types: return None
FetchEmpty(w, task_types) ==
    /\ pc[w] = "idle"
    /\ task_types = {}
    /\ ret' = [ret EXCEPT ![w] = Absent(task_types, "")]
    /\ UNCHANGED <<jobs, now, pc, call, last, dirty, stale, claims, deleted, reused,
                   bc, mqtt, storage, events, nrows>>
    /\ ops' = ops + 1

\* The selection read finds no row: if not db_job: return None
FetchNoCandidate(w, task_types) ==
    /\ pc[w] = "idle"
    /\ task_types # {}
    /\ Oldest(jobs, task_types) = {}
    /\ ret' = [ret EXCEPT ![w] = Absent(task_types, "")]
    /\ UNCHANGED <<jobs, now, pc, call, last, dirty, stale, claims, deleted, reused,
                   bc, mqtt, storage, events, nrows>>
    /\ ops' = ops + 1

\* The selection read finds db_job.
FetchSelect(w, task_types) ==
    /\ pc[w] = "idle"
    /\ task_types # {}
    /\ \E j \in Oldest(jobs, task_types) :
          call' = [call EXCEPT ![w] = [NoCall EXCEPT !.sel = j, !.types = task_types]]
    /\ pc' = [pc EXCEPT ![w] = "selected"]
    /\ ret' = [ret EXCEPT ![w] = NoRet]
    /\ NoteReturn(w)
    /\ UNCHANGED <<jobs, now, last, claims, deleted, reused, bc, mqtt, storage, events, nrows>>
    /\ ops' = ops + 1

\* The conditional UPDATE and commit, rowcount = 1: the job is claimed.
FetchClaim(w) ==
    /\ pc[w] = "selected"
    /\ ClaimMatches(jobs, call[w].sel) # {}
    /\ jobs' = [j \in DOMAIN jobs |->
                  IF j \in ClaimMatches(jobs, call[w].sel)
                  THEN ApplyValues(jobs[j], ClaimValues(now)) ELSE jobs[j]]
    /\ pc' = [pc EXCEPT ![w] = "claimed"]
    /\ NoteWrite(w, {}, {})
    /\ UNCHANGED <<now, call, ret, last, claims, deleted, reused, ops, bc, mqtt, storage, events, nrows>>

\* rowcount = 0 answered by selecting again instead of returning.
FetchLostRetry(w) ==
    /\ pc[w] = "selected"
    /\ ClaimMatches(jobs, call[w].sel) = {}
    /\ IF Oldest(jobs, call[w].types) = {}
       THEN /\ pc' = [pc EXCEPT ![w] = "idle"]
            /\ call' = [call EXCEPT ![w] = NoCall]
            /\ ret' = [ret EXCEPT ![w] = Absent(call[w].types, call[w].sel)]
            /\ NoteReturn(w)
       ELSE /\ \E j \in Oldest(jobs, call[w].types) :
                  call' = [call EXCEPT ![w].sel = j]
            /\ NoteReturn(w)
            /\ UNCHANGED <<pc, ret>>
    /\ UNCHANGED <<jobs, now, last, claims, deleted, reused, ops, bc, mqtt, storage, events, nrows>>

\* The conditional UPDATE, rowcount = 0: another worker claimed it first.
FetchLost(w) ==
    /\ pc[w] = "selected"
    /\ ClaimMatches(jobs, call[w].sel) = {}
    /\ pc' = [pc EXCEPT ![w] = "idle"]
    /\ call' = [call EXCEPT ![w] = NoCall]
    /\ ret' = [ret EXCEPT ![w] = Absent(call[w].types, call[w].sel)]
    /\ NoteReturn(w)
    /\ UNCHANGED <<jobs, now, last, claims, deleted, reused, ops, bc, mqtt, storage, events, nrows>>

\* What session.refresh(db_job) can give.  It re-reads the selected row by its
\* primary key: the row as it is now; an error when that row has been deleted;
\* and, when the job_id was added again and the engine gave the new row the old
\* key (SQLite reuses the largest rowid), the new row.
Refreshed(w) ==
    IF ~stale[w]
    THEN {DbToLibraryJob(call[w].sel, jobs[call[w].sel], call[w].types)}
    ELSE {Raised(call[w].types, call[w].sel)}
             \cup (IF call[w].sel \in DOMAIN jobs
                   THEN {DbToLibraryJob(call[w].sel, jobs[call[w].sel], call[w].types)}
                   ELSE {})

\* session.refresh(db_job); return self._db_to_library_job(db_job)
FetchReturn(w) ==
    /\ pc[w] = "claimed"
    /\ \E r \in Refreshed(w) :
          /\ ret' = [ret EXCEPT ![w] = r]
          /\ claims' = IF r.kind = "job"
                       THEN [claims EXCEPT ![call[w].sel] = Inc(@)] ELSE claims
    /\ pc' = [pc EXCEPT ![w] = "idle"]
    /\ call' = [call EXCEPT ![w] = NoCall]
    /\ NoteReturn(w)
    /\ UNCHANGED <<jobs, now, last, deleted, reused, ops, bc, mqtt, storage, events, nrows>>

\* ------------------------------------------------------------------ Spec

\* The claim protocol: every history of at most MaxOps calls that add, claim,
\* delete, requeue and finish jobs, interleaved at the statement boundaries.
QueueUpdates == {[status |-> "queued"], [status |-> "completed"]}

Next ==
    \/ Tick
    \/ \E j \in JobIds, t \in TaskTypes, s \in {"queued", "processing"} :
          ops < MaxOps /\ AddJob(j, t, s)
    \/ \E j \in JobIds : ops < MaxOps /\ DeleteJob(j)
    \/ \E j \in JobIds, k \in QueueUpdates : ops < MaxOps /\ UpdateJob(j, k)
    \/ \E w \in Workers, ts \in FetchInputs : ops < MaxOps /\ FetchEmpty(w, ts)
    \/ \E w \in Workers, ts \in FetchInputs : ops < MaxOps /\ FetchNoCandidate(w, ts)
    \/ \E w \in Workers, ts \in FetchInputs : ops < MaxOps /\ FetchSelect(w, ts)
    \/ \E w \in Workers : FetchClaim(w)
    \/ \E w \in Workers : FetchLost(w)
    \/ \E w \in Workers : FetchReturn(w)

Spec == Init /\ [][Next]_vars

\* The timestamps: every history of at most MaxOps calls on one job in which
\* update_job carries any of UpdateInputs.
StampJobs == {"j1"}

NextStamp ==
    \/ Tick
    \/ \E j \in StampJobs : ops < MaxOps /\ AddJob(j, "resize", "queued")
    \/ \E j \in StampJobs, k \in UpdateInputs : ops < MaxOps /\ UpdateJob(j, k)
    \/ \E w \in Workers, j \in StampJobs, k \in UpdateInputs :
          ops < MaxOps /\ UpdateRead(w, j, k)
    \/ \E w \in Workers : UpdateWrite(w)
    \/ \E w \in Workers : ops < MaxOps /\ FetchNoCandidate(w, {"resize"})
    \/ \E w \in Workers : ops < MaxOps /\ FetchSelect(w, {"resize"})
    \/ \E w \in Workers : FetchClaim(w)
    \/ \E w \in Workers : FetchLost(w)
    \/ \E w \in Workers : FetchReturn(w)

SpecStamp == Init /\ [][NextStamp]_vars

\* N concurrent fetch_next_job calls, one per caller, on a table that holds
\* exactly one queued job of the requested task type, and possibly a row that
\* is no candidate.
RaceJob == "j1"
RaceTypes == {"resize"}
RaceOthers ==
    {<<>>, "j2" :> NewRow("convert", "queued", 1), "j2" :> NewRow("resize", "processing", 1)}

InitRace ==
    /\ \E other \in RaceOthers : jobs = ("j1" :> NewRow("resize", "queued", 1)) @@ other
    /\ now = 1
    /\ pc = [w \in Callers |-> "idle"]
    /\ call = [w \in Callers |-> NoCall]
    /\ ret = [w \in Callers |-> NoRet]
    /\ last = NoLast
    /\ dirty = [w \in Callers |-> FALSE]
    /\ stale = [w \in Callers |-> FALSE]
    /\ claims = [j \in JobIds |-> 0]
    /\ deleted = {}
    /\ reused = FALSE
    /\ ops = 0
    /\ bc = [kind |-> "mqtt", connected |-> TRUE]
    /\ events = <<>>
    /\ nrows = [j \in JobIds |-> IF j \in DOMAIN jobs THEN 1 ELSE 0]
    /\ mqtt = NoBroadcasters
    /\ storage = NoFiles

NextRace ==
    \/ Tick
    \/ \E w \in Callers : ret[w].kind = "none" /\ FetchNoCandidate(w, RaceTypes)
    \/ \E w \in Callers : ret[w].kind = "none" /\ FetchSelect(w, RaceTypes)
    \/ \E w \in Callers : FetchClaim(w)
    \/ \E w \in Callers : FetchLost(w)
    \/ \E w \in Callers : FetchReturn(w)

SpecRace == InitRace /\ [][NextRace]_vars

\* The start race: NumCallers callers make update_job(RaceJob, status =
\* "processing") calls on the queued job, their reads and writes interleaved
\* in every order, while the clock runs.
NextStartRace ==
    \/ Tick
    \/ \E w \in Callers : ops < MaxOps /\ UpdateRead(w, RaceJob, [status |-> "processing"])
    \/ \E w \in Callers : UpdateWrite(w)

SpecStartRace == InitRace /\ [][NextStartRace]_vars

\* Polling: NumCallers workers keep calling fetch_next_job(RaceTypes), each
\* call a selection followed by the claiming UPDATE and the return.  A worker
\* that can take a step of its call, or begin a call, eventually does.
Poll(w) ==
    \/ ops < MaxOps /\ FetchNoCandidate(w, RaceTypes)
    \/ ops < MaxOps /\ FetchSelect(w, RaceTypes)
    \/ FetchClaim(w)
    \/ FetchLost(w)
    \/ FetchReturn(w)

NextPoll ==
    \/ Tick
    \/ \E w \in Callers : Poll(w)

SpecPoll ==
    InitRace /\ [][NextPoll]_vars /\ \A w \in Callers : WF_vars(Poll(w))

\* ------------------------------------------------------------ compute runner

\* run_compute_job(module) for the job named on the command line, run by
\* process 1: pc is the place in the function, call.sel the job_id, call.rd
\* the number of progress callbacks made, call.kwargs the attributes assigned
\* to the ORM object and not yet flushed.
Runner == 1

\* A task_output value json.dumps has no encoder for.
Opaque == JVal("object", "", 0, <<>>)
DumpsRaises(v) == v.tag = "object"

\* What module.process returns: result["status"], result["task_output"] and
\* result["error"].
ModuleResults ==
    {[status |-> "ok", task_output |-> JMap(<<Pair("files", JNum(1))>>), error |-> NoMessage],
     [status |-> "ok", task_output |-> Opaque, error |-> NoMessage],
     [status |-> "error", task_output |-> JMap(<<>>), error |-> "failed"]}

\* The percentages a module reports.
Percentages == {50, 100}

\* broadcaster.publish_event(event_type, job_id, data)
RunnerEvent(event_type, job_id, progress) ==
    [event_type |-> event_type, job_id |-> job_id, progress |-> progress,
     delivered |-> FALSE]

RunnerAt(w, place) == pc[w] = place /\ call[w].sel \in DOMAIN jobs

RunnerFrame ==
    UNCHANGED <<now, ret, last, dirty, stale, claims, deleted, reused, ops, bc, nrows,
                mqtt, storage>>

\* The job is read, set to processing with started_at, committed, and
\* "started" is published.
RunnerStart(w, job_id) ==
    /\ pc[w] = "idle"
    /\ job_id \in DOMAIN jobs
    /\ jobs' = [jobs EXCEPT ![job_id] =
                    ApplyValues(@, [status |-> "processing", started_at |-> now])]
    /\ \E o \in PublishEvent(RunnerEvent("started", job_id, 0)) :
            events' = events \o o.sent
    /\ pc' = [pc EXCEPT ![w] = "parsing"]
    /\ call' = [call EXCEPT ![w] = [NoCall EXCEPT !.sel = job_id, !.rd = 0]]
    /\ RunnerFrame

\* json.loads(job.params) and the parameter model: accepted, or ValueError.
RunnerParse(w, valid) ==
    /\ RunnerAt(w, "parsing")
    /\ pc' = [pc EXCEPT ![w] = IF valid THEN "executing" ELSE "except"]
    /\ UNCHANGED <<jobs, events, call>>
    /\ RunnerFrame

\* job.progress = min(99, percentage)
Capped(percentage) == IF percentage < 99 THEN percentage ELSE 99

\* progress_callback(percentage), called by the module while it runs.
ProgressCallback(w, percentage) ==
    /\ RunnerAt(w, "executing")
    /\ call[w].rd < MaxCallbacks
    /\ jobs' = [jobs EXCEPT ![call[w].sel] =
                    ApplyValues(@, [progress |-> Capped(percentage)])]
    /\ \E o \in PublishEvent(RunnerEvent("progress", call[w].sel, percentage)) :
            events' = events \o o.sent
    /\ call' = [call EXCEPT ![w].rd = @ + 1]
    /\ UNCHANGED pc
    /\ RunnerFrame

\* The attributes assigned in the "ok" branch before json.dumps(task_output).
AssignedBeforeDumps == [status |-> "completed", progress |-> 100]

\* module.process returned result.
RunnerResult(w, result) ==
    /\ RunnerAt(w, "executing")
    /\ LET job_id == call[w].sel IN
       IF result.status = "ok" /\ DumpsRaises(result.task_output)
       THEN /\ call' = [call EXCEPT ![w].kwargs = AssignedBeforeDumps]
            /\ pc' = [pc EXCEPT ![w] = "except"]
            /\ UNCHANGED <<jobs, events>>
       ELSE IF result.status = "ok"
       THEN /\ jobs' = [jobs EXCEPT ![job_id] =
                            ApplyValues(@, [status |-> "completed", progress |-> 100,
                                            task_output |-> Dumps(result.task_output),
                                            completed_at |-> now])]
            /\ \E o \in PublishEvent(RunnerEvent("completed", job_id, 100)) :
                    events' = events \o o.sent
            /\ pc' = [pc EXCEPT ![w] = "exited"]
            /\ UNCHANGED call
       ELSE /\ jobs' = [jobs EXCEPT ![job_id] =
                            ApplyValues(@, [status |-> "error",
                                            error_message |-> result.error,
                                            completed_at |-> now])]
            /\ \E o \in PublishEvent(RunnerEvent("failed", job_id, 0)) :
                    events' = events \o o.sent
            /\ pc' = [pc EXCEPT ![w] = "exited"]
            /\ UNCHANGED call
    /\ RunnerFrame

\* module.process raised.
RunnerRaise(w) ==
    /\ RunnerAt(w, "executing")
    /\ pc' = [pc EXCEPT ![w] = "except"]
    /\ UNCHANGED <<jobs, events, call>>
    /\ RunnerFrame

\* The job as db.query(Job).filter_by(job_id=job_id).first() returns it in the
\* handler: the query flushes the session, and the row it finds is the object
\* of the same session.
Requeried(row, assigned) == ApplyValues(row, assigned)

\* except Exception: the job is read again, set to error with the message and
\* completed_at, committed, and "failed" is published.
RunnerExcept(w) ==
    /\ RunnerAt(w, "except")
    /\ LET job_id == call[w].sel IN
       /\ jobs' = [jobs EXCEPT ![job_id] =
                      ApplyValues(Requeried(@, call[w].kwargs),
                                  [status |-> "error", error_message |-> "exception",
                                   completed_at |-> now])]
       /\ \E o \in PublishEvent(RunnerEvent("failed", job_id, 0)) :
               events' = events \o o.sent
    /\ pc' = [pc EXCEPT ![w] = "exited"]
    /\ call' = [call EXCEPT ![w].kwargs = <<>>]
    /\ RunnerFrame

RunComputeJob(w) ==
    \/ RunnerStart(w, RaceJob)
    \/ \E valid \in BOOLEAN : RunnerParse(w, valid)
    \/ \E p \in Percentages : ProgressCallback(w, p)
    \/ \E result \in ModuleResults : RunnerResult(w, result)
    \/ RunnerRaise(w)
    \/ RunnerExcept(w)

\* The runner: one run of run_compute_job on the stored job j1, queued or
\* already claimed, with at most MaxCallbacks progress reports; the process
\* is not killed, so its next step is always taken.
InitRunner ==
    /\ \E status \in {"queued", "processing"} :
            jobs = (RaceJob :> NewRow("resize", status, 1))
    /\ now = 1
    /\ pc = [w \in Callers |-> "idle"]
    /\ call = [w \in Callers |-> NoCall]
    /\ ret = [w \in Callers |-> NoRet]
    /\ last = NoLast
    /\ dirty = [w \in Callers |-> FALSE]
    /\ stale = [w \in Callers |-> FALSE]
    /\ claims = [j \in JobIds |-> 0]
    /\ deleted = {}
    /\ reused = FALSE
    /\ ops = 0
    /\ bc = [kind |-> "mqtt", connected |-> TRUE]
    /\ events = <<>>
    /\ nrows = [j \in JobIds |-> IF j \in DOMAIN jobs THEN 1 ELSE 0]
    /\ mqtt = NoBroadcasters
    /\ storage = NoFiles

NextRunner ==
    \/ Tick
    \/ RunComputeJob(Runner)

SpecRunner ==
    InitRunner /\ [][NextRunner]_vars /\ WF_vars(RunComputeJob(Runner))

\* The job fields: every history of at most MaxFieldOps calls that add, read,
\* update and delete jobs carrying params, progress, output and error
\* messages, and claim them, under every broadcaster.
NestedParams ==
    JMap(<<Pair("nested", JMap(<<Pair("key", JStr("value")), Pair("number", JNum(42))>>)),
           Pair("list", JList(<<JNum(1), JNum(2)>>))>>)
NestedOutput ==
    JMap(<<Pair("results", JList(<<JMap(<<Pair("id", JNum(1))>>)>>)),
           Pair("count", JNum(2))>>)
ParamValues == {JMap(<<>>), NestedParams}
OutputValues == {JNull, JMap(<<>>), NestedOutput}

FieldJobs ==
    {[LibraryJob(j, "resize", "queued") EXCEPT !.params = p, !.task_output = o] :
        j \in JobIds, p \in ParamValues, o \in {JNull, NestedOutput}}

FieldUpdates ==
    {[progress |-> 50], [error_message |-> "boom"], [status |-> "completed"],
     [status |-> "error", error_message |-> "boom"], <<>>, [priority |-> 1]}
        \cup {[task_output |-> o] : o \in OutputValues}
        \cup {[status |-> "completed", progress |-> 100, task_output |-> NestedOutput]}

StartUpdate == [status |-> "processing", progress |-> 50]

InitFields ==
    /\ jobs = <<>>
    /\ now = 1
    /\ pc = [w \in Workers |-> "idle"]
    /\ call = [w \in Workers |-> NoCall]
    /\ ret = [w \in Workers |-> NoRet]
    /\ last = NoLast
    /\ dirty = [w \in Workers |-> FALSE]
    /\ stale = [w \in Workers |-> FALSE]
    /\ claims = [j \in JobIds |-> 0]
    /\ deleted = {}
    /\ reused = FALSE
    /\ ops = 0
    /\ bc \in Broadcasters
    /\ events = <<>>
    /\ nrows = [j \in JobIds |-> 0]
    /\ mqtt = NoBroadcasters
    /\ storage = NoFiles

NextFields ==
    \/ \E job \in FieldJobs : ops < MaxFieldOps /\ AddJobRecord(job)
    \/ \E j \in JobIds : ops < MaxFieldOps /\ AddJobDuplicate(j)
    \/ \E j \in JobIds : ops < MaxFieldOps /\ GetJob(j)
    \/ \E j \in JobIds, k \in FieldUpdates : ops < MaxFieldOps /\ UpdateJob(j, k)
    \/ \E j \in JobIds : ops < MaxFieldOps /\ UpdateRead(1, j, StartUpdate)
    \/ UpdateWrite(1)
    \/ \E j \in JobIds : ops < MaxFieldOps /\ DeleteJob(j)
    \/ \E j \in JobIds : ops < MaxFieldOps /\ DeleteJobMissing(j)
    \/ ops < MaxFieldOps /\ FetchNoCandidate(1, {"resize"})
    \/ ops < MaxFieldOps /\ FetchSelect(1, {"resize"})
    \/ FetchClaim(1)
    \/ FetchLost(1)
    \/ FetchReturn(1)
    \/ ConnectionChange

SpecFields == InitFields /\ [][NextFields]_vars

\* The repository of shared_db: every history of at most MaxFieldOps calls
\* that add, update and delete jobs, with and without progress.
SharedUpdates ==
    {[progress |-> 50], [progress |-> NULL], [status |-> "completed"],
     [status |-> "completed", progress |-> 100],
     [status |-> "error", error_message |-> "boom"], <<>>}

InitShared ==
    /\ jobs = <<>>
    /\ now = 1
    /\ pc = [w \in Workers |-> "idle"]
    /\ call = [w \in Workers |-> NoCall]
    /\ ret = [w \in Workers |-> NoRet]
    /\ last = NoLast
    /\ dirty = [w \in Workers |-> FALSE]
    /\ stale = [w \in Workers |-> FALSE]
    /\ claims = [j \in JobIds |-> 0]
    /\ deleted = {}
    /\ reused = FALSE
    /\ ops = 0
    /\ bc = SharedBroadcaster
    /\ events = <<>>
    /\ nrows = [j \in JobIds |-> 0]
    /\ mqtt = NoBroadcasters
    /\ storage = NoFiles

NextShared ==
    \/ \E j \in JobIds : ops < MaxFieldOps /\ AddJob(j, "resize", "queued")
    \/ \E j \in JobIds, k \in SharedUpdates : ops < MaxFieldOps /\ UpdateJob(j, k)
    \/ \E j \in JobIds : ops < MaxFieldOps /\ UpdateRead(1, j, StartUpdate)
    \/ UpdateWrite(1)
    \/ \E j \in JobIds : ops < MaxFieldOps /\ DeleteJob(j)

SpecShared == InitShared /\ [][NextShared]_vars

\* ------------------------------------------------------- broadcaster objects

BroadcastTypes == {"mqtt", "noop"}
Brokers == {"localhost", "remote"}
Configs == {[broadcast_type |-> t, broker |-> b, port |-> 1883] :
                t \in BroadcastTypes, b \in Brokers}

\* MQTTBroadcaster.__init__: no client, connected False.  client is "None", or
\* a paho Client whose socket is "closed" (never connected, or disconnected)
\* or "open".
MQTTBroadcaster(config) ==
    [kind |-> "mqtt", config |-> config, client |-> "None", connected |-> FALSE]

\* NoOpBroadcaster(): an object with no attributes (the fields are unused).
NoOpBroadcaster ==
    [kind |-> "noop", config |-> NoConfig, client |-> "None", connected |-> FALSE]

\* b.connect().  reached: client.connect reaches the broker; when it does not
\* it raises, the Client made before it stays in self.client and connected
\* is not assigned.
Connect(b, reached) ==
    IF b.kind = "noop" THEN [obj |-> b, result |-> "true"]
    ELSE IF reached
         THEN [obj |-> [b EXCEPT !.client = "open", !.connected = TRUE],
               result |-> "true"]
         ELSE [obj |-> [b EXCEPT !.client = "closed"], result |-> "false"]

\* b.disconnect()
Disconnect(b) ==
    IF b.kind = "mqtt" /\ b.client # "None"
    THEN [b EXCEPT !.client = "closed", !.connected = FALSE]
    ELSE b

\* What the transport does with a publish on an open socket.
Transport == {"sent", "rc_error", "exception"}

\* publish_event that lets the transport's exception through.
PublishEventOnRaising(b, outcome) ==
    IF b.kind = "noop" THEN [result |-> "true", sent |-> FALSE]
    ELSE IF ~b.connected \/ b.client = "None" THEN [result |-> "false", sent |-> FALSE]
    ELSE IF b.client = "closed" THEN [result |-> "false", sent |-> FALSE]
    ELSE IF outcome = "sent" THEN [result |-> "true", sent |-> TRUE]
    ELSE IF outcome = "exception" THEN [result |-> "Exception", sent |-> FALSE]
    ELSE [result |-> "false", sent |-> FALSE]

\* b.publish_event(event_type, job_id, data).  A Client whose socket is closed
\* answers publish with MQTT_ERR_NO_CONN; on an open socket the transport
\* sends, answers with an error code, or raises, which is caught.
PublishEventOn(b, outcome) ==
    IF b.kind = "noop" THEN [result |-> "true", sent |-> FALSE]
    ELSE IF ~b.connected \/ b.client = "None" THEN [result |-> "false", sent |-> FALSE]
    ELSE IF b.client = "closed" THEN [result |-> "false", sent |-> FALSE]
    ELSE IF outcome = "sent" THEN [result |-> "true", sent |-> TRUE]
    ELSE [result |-> "false", sent |-> FALSE]

\* What NoOpBroadcaster answers to a method call or an attribute read.
NoOpMethods ==
    {"connect", "disconnect", "publish_event", "set_will", "publish_retained",
     "clear_retained", "connected"}
NoOpCall(method) ==
    IF method \in {"connect", "publish_event", "set_will", "publish_retained"}
    THEN "true"
    ELSE IF method = "disconnect" THEN "None"
    ELSE "AttributeError"

\* The record of a call: what was called, on which object, with what
\* configuration or environment, and what it returned.
Result(op, who, config, env, result) ==
    [op |-> op, who |-> who, config |-> config, env |-> env, result |-> result,
     seq |-> mqtt.res.seq + 1]

\* A caller constructs a broadcaster.
Construct(b) ==
    /\ Len(mqtt.objs) < MaxObjs
    /\ mqtt' = [mqtt EXCEPT !.objs = Append(@, b),
                            !.made = Append(@, [by |-> "caller", config |-> b.config]),
                            !.res = Result("construct", Len(mqtt.objs) + 1,
                                           b.config, "", "object")]
    /\ UNCHANGED <<queueVars, storage>>

CallConnect(i, reached) ==
    /\ i \in DOMAIN mqtt.objs
    /\ mqtt.res.seq < MaxCalls
    /\ LET r == Connect(mqtt.objs[i], reached)
       IN mqtt' = [mqtt EXCEPT !.objs[i] = r.obj,
                               !.res = Result("connect", i, NoConfig,
                                              IF reached THEN "reached" ELSE "refused",
                                              r.result)]
    /\ UNCHANGED <<queueVars, storage>>

CallDisconnect(i) ==
    /\ i \in DOMAIN mqtt.objs
    /\ mqtt.res.seq < MaxCalls
    /\ mqtt' = [mqtt EXCEPT !.objs[i] = Disconnect(@),
                            !.res = Result("disconnect", i, NoConfig, "", "None")]
    /\ UNCHANGED <<queueVars, storage>>

CallPublishEvent(i, outcome) ==
    /\ i \in DOMAIN mqtt.objs
    /\ mqtt.res.seq < MaxCalls
    /\ LET r == PublishEventOn(mqtt.objs[i], outcome)
       IN mqtt' = [mqtt EXCEPT !.sent = IF r.sent THEN Append(@, i) ELSE @,
                               !.res = Result("publish_event", i, NoConfig,
                                              outcome, r.result)]
    /\ UNCHANGED <<queueVars, storage>>

\* _on_connect(client, userdata, flags, rc): the loop thread of an open client
\* delivers the broker's answer; connected = (rc == 0).
OnConnect(i, accepted) ==
    /\ i \in DOMAIN mqtt.objs
    /\ mqtt.objs[i].kind = "mqtt"
    /\ mqtt.objs[i].client = "open"
    /\ mqtt.objs[i].connected # accepted
    /\ mqtt' = [mqtt EXCEPT !.objs[i].connected = accepted]
    /\ UNCHANGED <<queueVars, storage>>

CallNoOp(i, method) ==
    /\ i \in DOMAIN mqtt.objs
    /\ mqtt.objs[i].kind = "noop"
    /\ mqtt.res.seq < MaxCalls
    /\ mqtt' = [mqtt EXCEPT !.res = Result(method, i, NoConfig, "", NoOpCall(method))]
    /\ UNCHANGED <<queueVars, storage>>

\* No broadcaster object has been constructed.
InitBroadcaster == Init /\ mqtt.objs = <<>>

NextBroadcaster ==
    \/ \E c \in Configs :
          Construct(IF c.broadcast_type = "mqtt" THEN MQTTBroadcaster(c)
                    ELSE NoOpBroadcaster)
    \/ \E i \in 1..MaxObjs, reached \in BOOLEAN : CallConnect(i, reached)
    \/ \E i \in 1..MaxObjs : CallDisconnect(i)
    \/ \E i \in 1..MaxObjs, o \in Transport : CallPublishEvent(i, o)
    \/ \E i \in 1..MaxObjs, a \in BOOLEAN : OnConnect(i, a)
    \/ \E i \in 1..MaxObjs, m \in NoOpMethods : CallNoOp(i, m)

SpecBroadcaster == InitBroadcaster /\ [][NextBroadcaster]_vars

\* ------------------------------------------------------ the global broadcaster

\* MQTTBroadcaster(...) or NoOpBroadcaster(), by the requested type, and
\* connect() on it.
Created(config, reached) ==
    Connect(IF config.broadcast_type = "mqtt" THEN MQTTBroadcaster(config)
            ELSE NoOpBroadcaster, reached).obj

Env(reached) == IF reached THEN "reached" ELSE "refused"

\* mqtt.get_broadcaster that constructs a broadcaster on every call.
GetBroadcasterAlwaysNew(config, reached) ==
    /\ Len(mqtt.objs) < MaxObjs
    /\ mqtt' = [mqtt EXCEPT
            !.objs = Append(@, Created(config, reached)),
            !.made = Append(@, [by |-> "mqtt", config |-> config]),
            !.cached = Len(mqtt.objs) + 1,
            !.res = Result("mqtt.get_broadcaster", Len(mqtt.objs) + 1, config,
                           Env(reached), "object")]
    /\ UNCHANGED <<queueVars, storage>>

\* mqtt.get_broadcaster(broadcast_type, broker, port, topic)
GetBroadcaster(config, reached) ==
    /\ mqtt.res.seq < MaxCalls
    /\ IF mqtt.cached # 0
       THEN mqtt' = [mqtt EXCEPT
                !.res = Result("mqtt.get_broadcaster", mqtt.cached, config,
                               Env(reached), "object")]
       ELSE /\ Len(mqtt.objs) < MaxObjs
            /\ mqtt' = [mqtt EXCEPT
                    !.objs = Append(@, Created(config, reached)),
                    !.made = Append(@, [by |-> "mqtt", config |-> config]),
                    !.cached = Len(mqtt.objs) + 1,
                    !.res = Result("mqtt.get_broadcaster", Len(mqtt.objs) + 1,
                                   config, Env(reached), "object")]
    /\ UNCHANGED <<queueVars, storage>>

\* mqtt.shutdown_broadcaster that disconnects and keeps the global.
ShutdownBroadcasterKeeps ==
    /\ mqtt.res.seq < MaxCalls
    /\ mqtt' = [mqtt EXCEPT
            !.objs = IF mqtt.cached # 0
                     THEN [@ EXCEPT ![mqtt.cached] = Disconnect(@)] ELSE @,
            !.res = Result("mqtt.shutdown_broadcaster", mqtt.cached, NoConfig,
                           "", "None")]
    /\ UNCHANGED <<queueVars, storage>>

\* mqtt.shutdown_broadcaster()
ShutdownBroadcaster ==
    /\ mqtt.res.seq < MaxCalls
    /\ mqtt' = [mqtt EXCEPT
            !.objs = IF mqtt.cached # 0
                     THEN [@ EXCEPT ![mqtt.cached] = Disconnect(@)] ELSE @,
            !.cached = 0,
            !.res = Result("mqtt.shutdown_broadcaster", mqtt.cached, NoConfig,
                           "", "None")]
    /\ UNCHANGED <<queueVars, storage>>

\* mqtt_instance.get_broadcaster that replaces the global without
\* disconnecting the old broadcaster.
GetBroadcasterInstanceNoDisconnect(config, reached) ==
    /\ mqtt.res.seq < MaxCalls
    /\ IF mqtt.inst # 0 /\ mqtt.config = config
       THEN mqtt' = [mqtt EXCEPT
                !.res = Result("mqtt_instance.get_broadcaster", mqtt.inst, config,
                               Env(reached), "object")]
       ELSE /\ Len(mqtt.objs) < MaxObjs
            /\ mqtt' = [mqtt EXCEPT
                    !.objs = Append(@, Created(config, reached)),
                    !.made = Append(@, [by |-> "mqtt_instance", config |-> config]),
                    !.inst = Len(mqtt.objs) + 1,
                    !.config = config,
                    !.res = Result("mqtt_instance.get_broadcaster",
                                   Len(mqtt.objs) + 1, config, Env(reached),
                                   "object")]
    /\ UNCHANGED <<queueVars, storage>>

\* mqtt_instance.get_broadcaster(broadcast_type, broker, port): the cached
\* broadcaster when the configuration is the cached one, else the old one is
\* disconnected and a new one constructed, connected and cached.
GetBroadcasterInstance(config, reached) ==
    /\ mqtt.res.seq < MaxCalls
    /\ IF mqtt.inst # 0 /\ mqtt.config = config
       THEN mqtt' = [mqtt EXCEPT
                !.res = Result("mqtt_instance.get_broadcaster", mqtt.inst, config,
                               Env(reached), "object")]
       ELSE /\ Len(mqtt.objs) < MaxObjs
            /\ mqtt' = [mqtt EXCEPT
                    !.objs = Append(IF mqtt.inst # 0
                                    THEN [@ EXCEPT ![mqtt.inst] = Disconnect(@)]
                                    ELSE @,
                                    Created(config, reached)),
                    !.made = Append(@, [by |-> "mqtt_instance", config |-> config]),
                    !.inst = Len(mqtt.objs) + 1,
                    !.config = config,
                    !.res = Result("mqtt_instance.get_broadcaster",
                                   Len(mqtt.objs) + 1, config, Env(reached),
                                   "object")]
    /\ UNCHANGED <<queueVars, storage>>

\* mqtt_instance.shutdown_broadcaster(): _broadcaster_config is left as it is.
ShutdownBroadcasterInstance ==
    /\ mqtt.res.seq < MaxCalls
    /\ mqtt' = [mqtt EXCEPT
            !.objs = IF mqtt.inst # 0
                     THEN [@ EXCEPT ![mqtt.inst] = Disconnect(@)] ELSE @,
            !.inst = 0,
            !.res = Result("mqtt_instance.shutdown_broadcaster", mqtt.inst,
                           NoConfig, "", "None")]
    /\ UNCHANGED <<queueVars, storage>>

\* Both modules' globals are None.
InitSingleton == Init /\ mqtt.cached = 0 /\ mqtt.inst = 0

NextSingleton ==
    \/ \E c \in Configs, reached \in BOOLEAN : GetBroadcaster(c, reached)
    \/ ShutdownBroadcaster
    \/ \E c \in Configs, reached \in BOOLEAN : GetBroadcasterInstance(c, reached)
    \/ ShutdownBroadcasterInstance
    \/ \E i \in 1..MaxObjs, a \in BOOLEAN : OnConnect(i, a)

SpecSingleton == InitSingleton /\ [][NextSingleton]_vars

\* The accessor of mqtt_instance over broadcaster classes whose constructor,
\* connect() and disconnect() can raise, which its try blocks provide for.
\* env tells what the calls it makes do: disconnect and construct raise or
\* not, connect reaches the broker, is refused (returns False) or raises.
Envs ==
    [disconnect : {"ok", "raises"}, construct : {"ok", "raises"},
     connect : {"reached", "refused", "raises"}]

\* mqtt_instance.get_broadcaster(broadcast_type, broker, port).  A raising
\* disconnect leaves _broadcaster_config as it is; a raising constructor
\* leaves _broadcaster as it is; a raising connect leaves the new object in
\* _broadcaster without its configuration; _broadcaster is returned.
GetBroadcasterInstanceOn(config, env) ==
    /\ mqtt.res.seq < MaxCalls
    /\ IF mqtt.inst # 0 /\ mqtt.config = config
       THEN mqtt' = [mqtt EXCEPT
                !.res = Result("mqtt_instance.get_broadcaster", mqtt.inst, config,
                               env.connect, "object")]
       ELSE LET old == mqtt.inst
                objs1 == IF old # 0 /\ env.disconnect = "ok"
                         THEN [mqtt.objs EXCEPT ![old] = Disconnect(@)]
                         ELSE mqtt.objs
                config1 == IF old # 0 /\ env.disconnect = "ok" THEN NoConfig
                           ELSE mqtt.config
                new == Len(mqtt.objs) + 1
                made == IF config.broadcast_type = "mqtt" THEN MQTTBroadcaster(config)
                        ELSE NoOpBroadcaster
            IN IF env.construct = "raises"
               THEN mqtt' = [mqtt EXCEPT
                        !.objs = objs1, !.config = config1,
                        !.res = Result("mqtt_instance.get_broadcaster", old, config,
                                       env.connect,
                                       IF old = 0 THEN "None" ELSE "object")]
               ELSE /\ Len(mqtt.objs) < MaxObjs
                    /\ mqtt' = [mqtt EXCEPT
                          !.objs = Append(objs1,
                                          IF env.connect = "raises" THEN made
                                          ELSE Connect(made, env.connect = "reached").obj),
                          !.made = Append(@, [by |-> "mqtt_instance", config |-> config]),
                          !.inst = new,
                          !.config = IF env.connect = "raises" THEN config1 ELSE config,
                          !.res = Result("mqtt_instance.get_broadcaster", new, config,
                                         env.connect, "object")]
    /\ UNCHANGED <<queueVars, storage>>

\* mqtt_instance.shutdown_broadcaster(): when disconnect raises, the
\* exception leaves the function before _broadcaster is assigned.
ShutdownBroadcasterInstanceOn(disconnect) ==
    /\ mqtt.res.seq < MaxCalls
    /\ mqtt' = IF mqtt.inst # 0 /\ disconnect = "raises"
               THEN [mqtt EXCEPT
                        !.res = Result("mqtt_instance.shutdown_broadcaster", mqtt.inst,
                                       NoConfig, "", "Exception")]
               ELSE [mqtt EXCEPT
                        !.objs = IF mqtt.inst # 0
                                 THEN [@ EXCEPT ![mqtt.inst] = Disconnect(@)] ELSE @,
                        !.inst = 0,
                        !.res = Result("mqtt_instance.shutdown_broadcaster", mqtt.inst,
                                       NoConfig, "", "None")]
    /\ UNCHANGED <<queueVars, storage>>

NextAccessor ==
    \/ \E c \in Configs, env \in Envs : GetBroadcasterInstanceOn(c, env)
    \/ \E d \in {"ok", "raises"} : ShutdownBroadcasterInstanceOn(d)

SpecAccessor == InitSingleton /\ [][NextAccessor]_vars

\* ------------------------------------------------------------- job storage

\* base_dir / "jobs" / job_id and the paths below it.
JobDir(job_id) == <<"jobs", job_id>>
TargetPath(job_id, relative_path) == JobDir(job_id) \o relative_path
Parent(path) == SubSeq(path, 1, Len(path) - 1)
Under(path, root) == Len(path) >= Len(root) /\ SubSeq(path, 1, Len(root)) = root
Ancestors(path) == {SubSeq(path, 1, n) : n \in 0..(Len(path) - 1)}

\* The place a path names once the filesystem has followed its ".."
\* components; pathlib joins the components as they are given.
RECURSIVE NormOnto(_, _)
NormOnto(place, path) ==
    IF path = <<>> THEN place
    ELSE IF Head(path) = ".."
    THEN NormOnto(SubSeq(place, 1, Len(place) - 1), Tail(path))
    ELSE NormOnto(Append(place, Head(path)), Tail(path))
Norm(path) == NormOnto(<<>>, path)

IsDir(fs, path) == Norm(path) \in fs.dirs
IsFile(fs, path) == Norm(path) \in DOMAIN fs.files

\* path.mkdir(parents=True, exist_ok=True): os.mkdir fails on the first
\* component that is not a directory; a missing one is made by the call on
\* the parent and the mkdir is repeated, so the missing components are made
\* from the top down until a regular file is met.  made tells that a
\* component has been made, after which the file is met by os.mkdir itself.
RECURSIVE MkdirFrom(_, _, _, _)
MkdirFrom(fs, path, k, made) ==
    IF k > Len(path) THEN [fs |-> fs, error |-> "None"]
    ELSE LET part == SubSeq(path, 1, k)
         IN IF IsFile(fs, part)
            THEN [fs |-> fs,
                  error |-> IF k < Len(path) /\ ~made THEN "NotADirectoryError"
                            ELSE "FileExistsError"]
            ELSE IF IsDir(fs, part) THEN MkdirFrom(fs, path, k + 1, made)
            ELSE MkdirFrom([fs EXCEPT !.dirs = @ \cup {Norm(part)}], path, k + 1, TRUE)

MkdirParents(fs, path) == MkdirFrom(fs, path, 1, FALSE)

\* path.mkdir(exist_ok=True)
Mkdir(fs, path) ==
    IF IsDir(fs, path) THEN [fs |-> fs, error |-> "None"]
    ELSE IF IsFile(fs, path) THEN [fs |-> fs, error |-> "FileExistsError"]
    ELSE IF IsFile(fs, Parent(path)) THEN [fs |-> fs, error |-> "NotADirectoryError"]
    ELSE IF ~IsDir(fs, Parent(path)) THEN [fs |-> fs, error |-> "FileNotFoundError"]
    ELSE [fs |-> [fs EXCEPT !.dirs = @ \cup {Norm(path)}], error |-> "None"]

\* shutil.rmtree(job_dir): the directory and everything under it.
Rmtree(fs, root) ==
    [fs EXCEPT !.dirs = {d \in @ : ~Under(d, root)},
               !.files = Restrict(@, {f \in DOMAIN @ : ~Under(f, root)})]

\* create_directory that empties the job directory before making it.
CreateDirectoryOnFresh(fs, job_id) ==
    LET a == MkdirParents(Rmtree(fs, JobDir(job_id)), JobDir(job_id))
        b == Mkdir(a.fs, JobDir(job_id) \o <<"input">>)
        c == Mkdir(b.fs, JobDir(job_id) \o <<"output">>)
    IN IF a.error # "None" THEN a ELSE IF b.error # "None" THEN b ELSE c

\* The three mkdir calls of create_directory, stopping at the first that
\* raises.
CreateDirectoryOn(fs, job_id) ==
    LET a == MkdirParents(fs, JobDir(job_id))
        b == Mkdir(a.fs, JobDir(job_id) \o <<"input">>)
        c == Mkdir(b.fs, JobDir(job_id) \o <<"output">>)
    IN IF a.error # "None" THEN a ELSE IF b.error # "None" THEN b ELSE c

\* hashlib.sha256(), update and hexdigest, as a hash that is folded over the
\* bytes in the order they are fed.
Hasher == 7
RECURSIVE Update(_, _)
Update(h, chunk) ==
    IF chunk = <<>> THEN h
    ELSE Update((h * 31 + Head(chunk) + 1) % 251, Tail(chunk))

\* iter(lambda: f.read(_CHUNK_SIZE), b""): the chunks a file is read in.
RECURSIVE ReadChunks(_)
ReadChunks(bytes) ==
    IF bytes = <<>> THEN <<>>
    ELSE IF Len(bytes) <= ChunkSize THEN <<bytes>>
    ELSE <<SubSeq(bytes, 1, ChunkSize)>>
            \o ReadChunks(SubSeq(bytes, ChunkSize + 1, Len(bytes)))

RECURSIVE UpdateAll(_, _)
UpdateAll(h, chunks) ==
    IF chunks = <<>> THEN h ELSE UpdateAll(Update(h, Head(chunks)), Tail(chunks))

\* save of bytes: write_bytes(file), len(file), hasher.update(file).
SaveBytes(file) ==
    [content |-> file, size |-> Len(file), hash |-> Update(Hasher, file)]

\* save of a path hashing only the first chunk read back.
SavePathOneRead(source) ==
    LET target == source
    IN [content |-> target, size |-> Len(target),
        hash |-> IF target = <<>> THEN Hasher
                 ELSE Update(Hasher, Head(ReadChunks(target)))]

\* save of a path: copy2 to the target, the size from stat of the target, the
\* hash from the target read back in chunks.
SavePath(source) ==
    LET target == source
    IN [content |-> target, size |-> Len(target),
        hash |-> UpdateAll(Hasher, ReadChunks(target))]

\* save of a stream: each chunk read is written, counted and hashed, until a
\* read returns an empty chunk.  stream is the chunks the reads return.
RECURSIVE SaveStream(_, _)
SaveStream(stream, saved) ==
    IF stream = <<>> \/ Head(stream) = <<>> THEN saved
    ELSE SaveStream(Tail(stream),
                    [content |-> saved.content \o Head(stream),
                     size |-> saved.size + Len(Head(stream)),
                     hash |-> Update(saved.hash, Head(stream))])

Empty == [content |-> <<>>, size |-> 0, hash |-> Hasher]

\* What opening the target for writing raises.
OpenError(fs, target) ==
    LET bad == {k \in 1..(Len(target) - 1) : ~IsDir(fs, SubSeq(target, 1, k))}
        first == CHOOSE k \in bad : \A m \in bad : k <= m
    IN IF bad = {} THEN (IF IsDir(fs, target) THEN "IsADirectoryError" ELSE "None")
       ELSE IF IsFile(fs, SubSeq(target, 1, first)) THEN "NotADirectoryError"
       ELSE "FileNotFoundError"

\* The bytes of a source: the buffer, the file at the path, the chunks of the
\* stream in order.
RECURSIVE Concat(_)
Concat(chunks) == IF chunks = <<>> THEN <<>> ELSE Head(chunks) \o Concat(Tail(chunks))
SourceBytes(kind, source) == IF kind = "stream" THEN Concat(source) ELSE source

StorageResult(op, job_id, result) ==
    [NoSaved EXCEPT !.op = op, !.job_id = job_id, !.result = result,
                    !.seq = storage.res.seq + 1]

\* create_directory(job_id)
CreateDirectory(job_id) ==
    /\ storage.res.seq < MaxStorageOps
    /\ LET r == CreateDirectoryOn(storage, job_id)
       IN storage' = [r.fs EXCEPT !.res = StorageResult("create_directory", job_id,
                                                      r.error)]
    /\ UNCHANGED queueVars
    /\ UNCHANGED mqtt

\* remove that reports true and leaves the tree.
RemoveKeepsTree(job_id) ==
    /\ storage.res.seq < MaxStorageOps
    /\ storage' = [storage EXCEPT !.res =
            StorageResult("remove", job_id, Bool(IsDir(storage, JobDir(job_id))))]
    /\ UNCHANGED queueVars
    /\ UNCHANGED mqtt

\* remove(job_id)
Remove(job_id) ==
    /\ storage.res.seq < MaxStorageOps
    /\ storage' =
          IF IsFile(storage, JobDir(job_id))
          THEN [storage EXCEPT !.res = StorageResult("remove", job_id,
                                                     "NotADirectoryError")]
          ELSE IF IsDir(storage, JobDir(job_id))
          THEN [Rmtree(storage, JobDir(job_id)) EXCEPT
                    !.res = StorageResult("remove", job_id, Bool(TRUE))]
          ELSE [storage EXCEPT !.res = StorageResult("remove", job_id, Bool(FALSE))]
    /\ UNCHANGED queueVars
    /\ UNCHANGED mqtt

\* save that makes the parent directories whatever mkdirs says.
SaveMakingParents(job_id, relative_path, kind, source, mkdirs) ==
    /\ storage.res.seq < MaxStorageOps
    /\ LET target == TargetPath(job_id, relative_path)
           made == MkdirParents(storage, Parent(target))
           error == IF made.error # "None" THEN made.error
                    ELSE OpenError(made.fs, target)
           saved == IF kind = "bytes" THEN SaveBytes(source)
                    ELSE IF kind = "path" THEN SavePath(source)
                    ELSE SaveStream(source, Empty)
           record == [StorageResult("save", job_id, error) EXCEPT
                        !.relative_path = relative_path, !.kind = kind,
                        !.source = source, !.mkdirs = mkdirs]
       IN storage' =
            IF error # "None" THEN [made.fs EXCEPT !.res = record]
            ELSE [made.fs EXCEPT
                    !.files = (Norm(target) :> saved.content) @@ @,
                    !.res = [record EXCEPT !.result = "SavedJobFile",
                                         !.size = saved.size,
                                         !.hash = saved.hash]]
    /\ UNCHANGED queueVars
    /\ UNCHANGED mqtt

\* save(job_id, relative_path, file, mkdirs=mkdirs), file of the given kind.
Save(job_id, relative_path, kind, source, mkdirs) ==
    /\ storage.res.seq < MaxStorageOps
    /\ LET target == TargetPath(job_id, relative_path)
           made == IF mkdirs THEN MkdirParents(storage, Parent(target))
                   ELSE [fs |-> storage, error |-> "None"]
           error == IF made.error # "None" THEN made.error
                    ELSE OpenError(made.fs, target)
           saved == IF kind = "bytes" THEN SaveBytes(source)
                    ELSE IF kind = "path" THEN SavePath(source)
                    ELSE SaveStream(source, Empty)
           record == [StorageResult("save", job_id, error) EXCEPT
                        !.relative_path = relative_path, !.kind = kind,
                        !.source = source, !.mkdirs = mkdirs]
       IN storage' =
            IF error # "None" THEN [made.fs EXCEPT !.res = record]
            ELSE [made.fs EXCEPT
                    !.files = (Norm(target) :> saved.content) @@ @,
                    !.res = [record EXCEPT !.result = "SavedJobFile",
                                         !.size = saved.size,
                                         !.hash = saved.hash]]
    /\ UNCHANGED queueVars
    /\ UNCHANGED mqtt

\* What callers save: buffers and files of up to three bytes, and streams
\* whose reads return full and short chunks.
RelativePaths == {<<"input">>, <<"input", "a.bin">>, <<"output", "r.bin">>}
Buffers == {<<>>, <<1, 0, 1>>}
Streams == {<<<<1, 0>>, <<1>>>>, <<<<1>>, <<0, 1>>>>}
Sources ==
    {[kind |-> "bytes", source |-> b] : b \in Buffers}
        \cup {[kind |-> "path", source |-> b] : b \in Buffers}
        \cup {[kind |-> "stream", source |-> c] : c \in Streams}

InitStorage == Init /\ storage = NoFiles

NextStorage ==
    \/ \E j \in JobIds : CreateDirectory(j)
    \/ \E j \in JobIds : Remove(j)
    \/ \E j \in JobIds, p \in RelativePaths, f \in Sources, m \in BOOLEAN :
          Save(j, p, f.kind, f.source, m)

SpecStorage == InitStorage /\ [][NextStorage]_vars

\* allocate_path that reserves the path by making an empty file there.
AllocatePathTouches(job_id, relative_path, mkdirs) ==
    /\ storage.res.seq < MaxStorageOps
    /\ LET target == TargetPath(job_id, relative_path)
           made == IF mkdirs THEN MkdirParents(storage, Parent(target))
                   ELSE [fs |-> storage, error |-> "None"]
           record == [StorageResult("allocate_path", job_id, made.error) EXCEPT
                        !.relative_path = relative_path, !.mkdirs = mkdirs]
       IN storage' =
            IF made.error # "None" THEN [made.fs EXCEPT !.res = record]
            ELSE [made.fs EXCEPT
                    !.files = IF OpenError(made.fs, target) = "None"
                              THEN (Norm(target) :> <<>>) @@ @ ELSE @,
                    !.res = [record EXCEPT !.result = "Path", !.path = target]]
    /\ UNCHANGED queueVars
    /\ UNCHANGED mqtt

\* allocate_path(job_id, relative_path, mkdirs=mkdirs)
AllocatePath(job_id, relative_path, mkdirs) ==
    /\ storage.res.seq < MaxStorageOps
    /\ LET target == TargetPath(job_id, relative_path)
           made == IF mkdirs THEN MkdirParents(storage, Parent(target))
                   ELSE [fs |-> storage, error |-> "None"]
           record == [StorageResult("allocate_path", job_id, made.error) EXCEPT
                        !.relative_path = relative_path, !.mkdirs = mkdirs]
       IN storage' =
            IF made.error # "None" THEN [made.fs EXCEPT !.res = record]
            ELSE [made.fs EXCEPT
                    !.res = [record EXCEPT !.result = "Path", !.path = target]]
    /\ UNCHANGED queueVars
    /\ UNCHANGED mqtt

\* relative_path=None of resolve_path, which is no path component.
NoRelativePath == <<"None">>

\* resolve_path(job_id, relative_path)
ResolvePath(job_id, relative_path) ==
    /\ storage.res.seq < MaxStorageOps
    /\ storage' = [storage EXCEPT !.res =
            [StorageResult("resolve_path", job_id, "Path") EXCEPT
                !.relative_path = relative_path,
                !.path = IF relative_path = NoRelativePath THEN JobDir(job_id)
                         ELSE TargetPath(job_id, relative_path)]]
    /\ UNCHANGED queueVars
    /\ UNCHANGED mqtt

\* The storage with all its path operations, called with relative paths that
\* stay in the job's directory and with one that climbs out of it into
\* another job's.
Escaping == {<<"..", j, "input", "a.bin">> : j \in JobIds}
PathInputs == {<<"input">>, <<"input", "a.bin">>} \cup Escaping
PathSources == {[kind |-> "bytes", source |-> <<1, 0, 1>>],
                [kind |-> "stream", source |-> <<<<1, 0>>, <<1>>>>]}

NextPaths ==
    \/ \E j \in JobIds : CreateDirectory(j)
    \/ \E j \in JobIds : Remove(j)
    \/ \E j \in JobIds, p \in PathInputs, f \in PathSources, m \in BOOLEAN :
          Save(j, p, f.kind, f.source, m)
    \/ \E j \in JobIds, p \in PathInputs, m \in BOOLEAN : AllocatePath(j, p, m)
    \/ \E j \in JobIds, p \in PathInputs \cup {NoRelativePath} : ResolvePath(j, p)

SpecPaths == InitStorage /\ [][NextPaths]_vars

\* ------------------------------------------------- file storage: retention

\* What a directory holds directly.
Children(fs, d) ==
    {q \in fs.dirs \cup DOMAIN fs.files : Len(q) = Len(d) + 1 /\ Under(q, d)}

\* st_mtime of the directories after an operation: a directory that was made,
\* or in which an entry was made or removed, has the time of the operation.
Stamp(old, new) ==
    [new EXCEPT !.mtime =
        [d \in new.dirs |-> IF d \in old.dirs /\ Children(old, d) = Children(new, d)
                            THEN old.mtime[d] ELSE old.time]]

\* create_job_directory(job_id)
CreateJobDirectory(job_id) ==
    /\ storage.res.seq < MaxStorageOps
    /\ LET r == CreateDirectoryOn(storage, job_id)
       IN storage' = Stamp(storage,
              [r.fs EXCEPT !.res = StorageResult("create_job_directory", job_id,
                                                 r.error)])
    /\ UNCHANGED queueVars
    /\ UNCHANGED mqtt

\* get_input_path(job_id)
GetInputPath(job_id) == JobDir(job_id) \o <<"input">>

\* save_input_file(job_id, filename, file): the parents of the file are made
\* under the job's input directory and the upload is written.
SaveInputFile(job_id, filename, contents) ==
    /\ storage.res.seq < MaxStorageOps
    /\ LET file_path == GetInputPath(job_id) \o filename
           made == MkdirParents(storage, Parent(file_path))
           error == IF made.error # "None" THEN made.error
                    ELSE OpenError(made.fs, file_path)
           record == [StorageResult("save_input_file", job_id, error) EXCEPT
                        !.relative_path = filename, !.kind = "bytes",
                        !.source = contents]
       IN storage' = Stamp(storage,
            IF error # "None" THEN [made.fs EXCEPT !.res = record]
            ELSE [made.fs EXCEPT
                    !.files = (Norm(file_path) :> contents) @@ @,
                    !.res = [record EXCEPT !.result = "dict",
                                         !.size = Len(contents),
                                         !.hash = UpdateAll(Hasher, ReadChunks(contents))]])
    /\ UNCHANGED queueVars
    /\ UNCHANGED mqtt

\* cleanup_job(job_id)
CleanupJob(job_id) ==
    /\ storage.res.seq < MaxStorageOps
    /\ storage' = Stamp(storage,
          IF IsFile(storage, JobDir(job_id))
          THEN [storage EXCEPT !.res = StorageResult("cleanup_job", job_id,
                                                     "NotADirectoryError")]
          ELSE IF IsDir(storage, JobDir(job_id))
          THEN [Rmtree(storage, JobDir(job_id)) EXCEPT
                    !.res = StorageResult("cleanup_job", job_id, Bool(TRUE))]
          ELSE [storage EXCEPT !.res = StorageResult("cleanup_job", job_id, Bool(FALSE))])
    /\ UNCHANGED queueVars
    /\ UNCHANGED mqtt

\* The directories jobs_dir.iterdir() yields.
JobDirs(fs) == {d \in Children(fs, <<"jobs">>) : IsDir(fs, d)}

\* The sweep taking a directory modified exactly at the cutoff as well.
ExpiredAtCutoff(fs, days) == {d \in JobDirs(fs) : fs.mtime[d] <= fs.time - days}

\* The job directories the sweep deletes: those modified before the cutoff.
\* A day is the unit of time.
Expired(fs, days) == {d \in JobDirs(fs) : fs.mtime[d] < fs.time - days}

\* The sizes of the files job_dir.rglob("*") finds, added up.
RECURSIVE FreedSpace(_, _)
FreedSpace(fs, paths) ==
    IF paths = {} THEN 0
    ELSE LET file_path == CHOOSE q \in paths : TRUE
         IN Len(fs.files[file_path]) + FreedSpace(fs, paths \ {file_path})

\* The loop of cleanup_old_jobs over the directories to delete: the sizes
\* are added, the job is cleaned up and counted.
RECURSIVE Sweep(_, _, _)
Sweep(fs, todo, sofar) ==
    IF todo = {} THEN [fs |-> fs, deleted_count |-> sofar.deleted_count,
                       freed_space |-> sofar.freed_space]
    ELSE LET job_dir == CHOOSE d \in todo : TRUE
         IN Sweep(Rmtree(fs, job_dir), todo \ {job_dir},
                  [deleted_count |-> sofar.deleted_count + 1,
                   freed_space |-> sofar.freed_space
                       + FreedSpace(fs, {q \in DOMAIN fs.files : Under(q, job_dir)})])

\* cleanup_old_jobs(days)
CleanupOldJobs(days) ==
    /\ storage.res.seq < MaxStorageOps
    /\ LET swept == Sweep(storage, Expired(storage, days),
                          [deleted_count |-> 0, freed_space |-> 0])
       IN storage' = Stamp(storage,
            [swept.fs EXCEPT !.res =
                [StorageResult("cleanup_old_jobs", "", "dict") EXCEPT
                    !.days = days,
                    !.count = swept.deleted_count,
                    !.size = swept.freed_space]])
    /\ UNCHANGED queueVars
    /\ UNCHANGED mqtt

\* time.time() moves on by a day.
PassDay ==
    /\ storage.time < MaxDays
    /\ storage' = [storage EXCEPT !.time = @ + 1]
    /\ UNCHANGED queueVars
    /\ UNCHANGED mqtt

Filenames == {<<"a.bin">>, <<"sub", "b.bin">>}
Uploads == {<<1>>, <<1, 0, 1>>}
Thresholds == {0, 1}

NextCleanup ==
    \/ \E j \in JobIds : CreateJobDirectory(j)
    \/ \E j \in JobIds, n \in Filenames, f \in Uploads : SaveInputFile(j, n, f)
    \/ \E j \in JobIds : CleanupJob(j)
    \/ \E days \in Thresholds : CleanupOldJobs(days)
    \/ PassDay

SpecCleanup == InitStorage /\ [][NextCleanup]_vars

\* =================================================================== claims

Terminal == {"completed", "error"}
Kept(j) == j \in DOMAIN jobs /\ j \in DOMAIN jobs'

\* Worker w's conditional UPDATE is the step taken.
ClaimStep(w) == pc[w] = "selected" /\ pc'[w] = "claimed"

\* An update_job call's UPDATE is the step taken: last' describes it.
UpdateStep == last' # last /\ last'.op = "update"

Winners == {w \in DOMAIN pc : ret[w].kind = "job"}
RaceOver == \A w \in DOMAIN pc : pc[w] = "idle" /\ ret[w].kind # "none"

\* C1: of N concurrent fetch_next_job calls on a table holding exactly one
\* queued job of the requested task type, never more than one returns a job;
\* the job returned is that job, with status processing; and when all N calls
\* have returned, exactly one has returned it and the other N-1 returned absent.
C1_ExactlyOneWinner ==
    /\ Cardinality(Winners) <= 1
    /\ \A w \in Winners : ret[w].job_id = RaceJob /\ ret[w].status = "processing"
    /\ RaceOver => /\ Cardinality(Winners) = 1
                   /\ \A w \in (DOMAIN pc) \ Winners : ret[w].kind = "absent"

\* One caller has won, one that selected the same job has lost the conditional
\* UPDATE, and one that came after the claim found no candidate.
C1_Witness ==
    /\ RaceOver
    /\ \E w \in DOMAIN pc : ret[w].kind = "job"
    /\ \E w \in DOMAIN pc : ret[w].kind = "absent" /\ ret[w].sel = RaceJob
    /\ \E w \in DOMAIN pc : ret[w].kind = "absent" /\ ret[w].sel = ""

C3_OldestFirst ==
    [][\A w \in DOMAIN pc :
        /\ (pc[w] = "idle" /\ pc'[w] = "selected") =>
              /\ call'[w].sel \in Candidates(jobs, call'[w].types)
              /\ \A k \in Candidates(jobs, call'[w].types) :
                    jobs[call'[w].sel].created_at <= jobs[k].created_at
        /\ (pc[w] = "idle" /\ pc'[w] = "idle" /\ ret'[w] # ret[w]
                /\ ret'[w].kind = "absent" /\ ret'[w].types # {}) =>
              Candidates(jobs, ret'[w].types) = {}
        /\ (pc[w] = "selected" /\ pc'[w] # "selected" /\ ~dirty[w]) =>
              /\ pc'[w] = "claimed"
              /\ \A k \in Candidates(jobs, call[w].types) :
                    jobs[call[w].sel].created_at <= jobs[k].created_at
              /\ jobs'[call[w].sel].status = "processing"
        /\ (pc[w] = "claimed" /\ pc'[w] = "idle" /\ ~dirty[w]) =>
              /\ ret'[w].kind = "job"
              /\ ret'[w].job_id = call[w].sel
    ]_vars

\* A fetch has returned a job while a younger job of a requested type is still
\* queued.
C3_Witness ==
    \E w \in DOMAIN pc, k \in DOMAIN jobs :
        /\ ret[w].kind = "job"
        /\ ret[w].job_id \in DOMAIN jobs
        /\ jobs[k].status = "queued"
        /\ jobs[k].task_type \in ret[w].types
        /\ jobs[ret[w].job_id].created_at < jobs[k].created_at

C5_EmptyTypes ==
    /\ [](\A w \in DOMAIN pc :
            /\ pc[w] \in {"selected", "claimed"} => call[w].types # {}
            /\ (ret[w].kind # "none" /\ ret[w].types = {}) => ret[w].kind = "absent")
    /\ [][\A w \in DOMAIN pc :
            (ret'[w] # ret[w] /\ ret'[w].kind # "none" /\ ret'[w].types = {})
                => jobs' = jobs]_vars

\* A fetch with empty task_types has returned absent while a job is queued.
C5_Witness ==
    \E w \in DOMAIN pc, j \in DOMAIN jobs :
        /\ ret[w].kind = "absent"
        /\ ret[w].types = {}
        /\ jobs[j].status = "queued"

\* C6: when the job a fetch_next_job call selected is no longer queued at its
\* conditional UPDATE, the call's next step returns absent, changes no row and
\* selects no other candidate.
C6_LostRace ==
    [][\A w \in DOMAIN pc :
        (/\ pc[w] = "selected"
         /\ (call[w].sel \notin DOMAIN jobs \/ jobs[call[w].sel].status # "queued")
         /\ (pc'[w] # pc[w] \/ call'[w] # call[w]))
        => /\ pc'[w] = "idle"
           /\ ret'[w].kind = "absent"
           /\ jobs' = jobs
    ]_vars

\* A call that had selected a job returned absent while another candidate of a
\* requested type is queued.
C6_Witness ==
    \E w \in DOMAIN pc :
        /\ ret[w].kind = "absent"
        /\ ret[w].sel # ""
        /\ Candidates(jobs, ret[w].types) # {}

\* C7, as stated: a job's status only moves queued -> processing and
\* processing -> completed or error; a terminal status is never changed.
C7_Original ==
    [][\A j \in DOMAIN jobs :
        (Kept(j) /\ jobs'[j].status # jobs[j].status)
        => \/ jobs[j].status = "queued" /\ jobs'[j].status = "processing"
           \/ jobs[j].status = "processing" /\ jobs'[j].status \in Terminal
    ]_vars

\* C7, amended: fetch_next_job changes a status only from queued to
\* processing; every other status change is made by an update_job that carries
\* a status, which is written whatever the current status is, terminal ones
\* included; no other operation changes a status.
C7_Amended ==
    [][\A j \in DOMAIN jobs :
        (Kept(j) /\ jobs'[j].status # jobs[j].status)
        => \/ /\ \E w \in DOMAIN pc : ClaimStep(w) /\ call[w].sel = j
              /\ jobs[j].status = "queued"
              /\ jobs'[j].status = "processing"
           \/ /\ UpdateStep
              /\ last'.job_id = j
              /\ "status" \in DOMAIN last'.kwargs
              /\ jobs'[j].status = last'.kwargs.status
    ]_vars

\* An update_job carrying status queued has moved a completed job back to queued.
C7_Witness ==
    \E j \in DOMAIN jobs :
        /\ last.op = "update" /\ last.job_id = j /\ last.result = "true"
        /\ last.kwargs = [status |-> "queued"]
        /\ jobs[j].status = "queued"
        /\ jobs[j].completed_at # NULL

\* C8: an update_job with status processing during which no other call writes
\* the table sets started_at to the current time when it is unset and leaves
\* it as it is otherwise.
C8_StartedAtFirstOnly ==
    [][\A w \in DOMAIN pc :
        (/\ pc[w] = "upd_read" /\ pc'[w] = "idle"
         /\ ~dirty[w]
         /\ call[w].sel \in DOMAIN jobs)
        => /\ jobs'[call[w].sel].status = "processing"
           /\ jobs'[call[w].sel].started_at =
                 IF jobs[call[w].sel].started_at = NULL
                 THEN now ELSE jobs[call[w].sel].started_at
    ]_vars

\* A second update_job with status processing has returned at a time later
\* than the started_at the job keeps.
C8_Witness ==
    \E j \in DOMAIN jobs :
        /\ last.op = "update" /\ last.job_id = j /\ last.result = "true"
        /\ last.kwargs = [status |-> "processing"]
        /\ jobs[j].started_at \in Times
        /\ jobs[j].started_at < last.at

\* C9, as stated: once started_at is not null, no step changes it.
C9_Original ==
    [][\A j \in DOMAIN jobs :
        (Kept(j) /\ jobs[j].started_at # NULL)
        => jobs'[j].started_at = jobs[j].started_at
    ]_vars

\* C9, amended: once started_at is not null it is changed only by an
\* update_job that passes started_at itself, by a fetch_next_job that claims
\* the job after its status was set back to queued, and by an update_job with
\* status processing that read started_at while it was still null; every other
\* step leaves it unchanged.
C9_Amended ==
    [][\A j \in DOMAIN jobs :
        (Kept(j) /\ jobs[j].started_at # NULL
            /\ jobs'[j].started_at # jobs[j].started_at)
        => \/ /\ UpdateStep
              /\ last'.job_id = j
              /\ "started_at" \in DOMAIN last'.kwargs
              /\ jobs'[j].started_at = last'.kwargs.started_at
           \/ /\ \E w \in DOMAIN pc : ClaimStep(w) /\ call[w].sel = j
              /\ jobs[j].status = "queued"
              /\ jobs'[j].started_at = now
           \/ /\ \E w \in DOMAIN pc :
                    /\ pc[w] = "upd_read" /\ pc'[w] = "idle"
                    /\ call[w].sel = j /\ call[w].rd = NULL /\ dirty[w]
              /\ jobs'[j].started_at = now
    ]_vars

\* An update_job to completed has returned at a time later than the started_at
\* the job keeps.
C9_Witness ==
    \E j \in DOMAIN jobs :
        /\ last.op = "update" /\ last.job_id = j /\ last.result = "true"
        /\ last.kwargs = [status |-> "completed"]
        /\ jobs[j].started_at \in Times
        /\ jobs[j].started_at < last.at

Stamped(row) ==
    /\ row.status = "processing" => row.started_at # NULL
    /\ row.status \in Terminal => row.completed_at # NULL

ExplicitNull(j) ==
    /\ UpdateStep
    /\ last'.job_id = j
    /\ \/ "started_at" \in DOMAIN last'.kwargs /\ last'.kwargs.started_at = NULL
       \/ "completed_at" \in DOMAIN last'.kwargs /\ last'.kwargs.completed_at = NULL

CallStep(op) == last' # last /\ last'.op = op

\* The partial update carries at least one field update_job recognizes.
Recognized(kwargs) ==
    DOMAIN kwargs \cap (PassedThrough \cup {"status", "task_output"}) # {}

\* C12: update_job on a job_id that does not exist returns false, raises no
\* error, changes no row and publishes no event.
C12_UpdateMissing ==
    [][(UpdateStep /\ last'.job_id \notin DOMAIN jobs)
       => /\ last'.result = "false"
          /\ jobs' = jobs
          /\ events' = events
    ]_vars

\* update_job with a progress value was called for a job_id the table does
\* not hold, while another job is stored, and returned false.
C12_Witness ==
    /\ last.op = "update"
    /\ last.job_id \notin DOMAIN jobs
    /\ "progress" \in DOMAIN last.kwargs
    /\ last.result = "false"
    /\ jobs # <<>>

\* C13, as stated: update_job returns true whenever the job exists and the
\* update carries at least one recognized field; an update with no recognized
\* field returns false and writes nothing, whether or not the job exists.
C13_Original ==
    [][UpdateStep
       => /\ (Recognized(last'.kwargs) /\ last'.job_id \in DOMAIN jobs)
             => last'.result = "true"
          /\ ~Recognized(last'.kwargs)
             => (last'.result = "false" /\ jobs' = jobs)
    ]_vars

\* The columns an update_job may change: those the partial update names and
\* the timestamp its status triggers.
Touched(kwargs) ==
    DOMAIN kwargs
    \cup (IF "status" \in DOMAIN kwargs /\ kwargs.status = "processing"
          THEN {"started_at"} ELSE {})
    \cup (IF "status" \in DOMAIN kwargs /\ kwargs.status \in Terminal
          THEN {"completed_at"} ELSE {})

\* C14: update_job changes only the fields in the partial update and the
\* derived timestamp; every other field of the job and every other job is
\* unchanged.
C14_UpdateFrame ==
    [][UpdateStep
       => /\ DOMAIN jobs' = DOMAIN jobs
          /\ \A j \in DOMAIN jobs :
                IF j = last'.job_id
                THEN \A f \in DOMAIN jobs[j] \ Touched(last'.kwargs) :
                        jobs'[j][f] = jobs[j][f]
                ELSE jobs'[j] = jobs[j]
    ]_vars

\* A job whose progress was set to 50 was completed by an update_job that
\* names only the status: progress is kept and completed_at is set.
C14_Witness ==
    /\ last.op = "update"
    /\ last.result = "true"
    /\ DOMAIN last.kwargs = {"status"}
    /\ last.kwargs.status = "completed"
    /\ jobs[last.job_id].progress = 50
    /\ jobs[last.job_id].completed_at # NULL

\* C15: add_job with a job_id that exists fails with an error that is neither
\* of the not-found results, leaves the row unchanged and adds no row; in
\* every reachable state the table holds at most one row per job_id.
C15_UniqueJobId ==
    /\ [](\A j \in JobIds : nrows[j] = (IF j \in DOMAIN jobs THEN 1 ELSE 0))
    /\ [][(CallStep("add") /\ last'.job_id \in DOMAIN jobs)
          => /\ last'.result \notin {"None", "false", last'.job_id}
             /\ jobs' = jobs
             /\ nrows' = nrows
       ]_vars

\* add_job was called with the job_id of a job that had been updated, and
\* raised.
C15_Witness ==
    /\ last.op = "add"
    /\ last.result = "IntegrityError"
    /\ last.job_id \in DOMAIN jobs
    /\ jobs[last.job_id].progress = 50

\* C16: delete_job on an existing job removes the row and returns true, after
\* which get_job returns absent and a further delete_job returns false;
\* delete_job on a job_id that does not exist returns false and changes
\* nothing.
C16_Delete ==
    [][/\ CallStep("delete")
          => IF last'.job_id \in DOMAIN jobs
             THEN /\ last'.result = "true"
                  /\ last'.job_id \notin DOMAIN jobs'
                  /\ jobs' = Restrict(jobs, DOMAIN jobs \ {last'.job_id})
             ELSE /\ last'.result = "false"
                  /\ jobs' = jobs
       /\ (CallStep("get") /\ last'.job_id \notin DOMAIN jobs)
          => (last'.result = "None" /\ jobs' = jobs)
    ]_vars

\* A job was deleted and a further delete_job of it returned false.
C16_Witness ==
    /\ last.op = "delete"
    /\ last.result = "false"
    /\ last.job_id \in deleted
    /\ last.job_id \notin DOMAIN jobs

\* --------------------------------------------------- params, output, error

\* What get_job returns for the row of job j in table.
ReadBack(table, j) == DbToLibraryJob(j, table[j], {})

\* C17, as stated: every JSON-like params and output value, nested maps and
\* lists and empty maps included, that add_job or update_job writes is what
\* get_job returns for the job: the value read from the written row equals
\* the value written.
C17_Original ==
    [][/\ (CallStep("add") /\ last'.result = last'.job_id)
          => /\ ReadBack(jobs', last'.job_id).params = last'.kwargs.params
             /\ ReadBack(jobs', last'.job_id).task_output = last'.kwargs.task_output
       /\ (UpdateStep /\ last'.job_id \in DOMAIN jobs
             /\ "task_output" \in DOMAIN last'.kwargs)
          => ReadBack(jobs', last'.job_id).task_output = last'.kwargs.task_output
    ]_vars

\* C18, as stated: in every reachable state a job has an output only if its
\* status is completed and an error_message only if its status is error.
C18_Original ==
    \A j \in DOMAIN jobs :
        /\ jobs[j].task_output # NoText => jobs[j].status = "completed"
        /\ jobs[j].error_message # NoMessage => jobs[j].status = "error"

\* C18, amended: output and error_message are not tied to the status.
\* update_job stores a passed error_message and a passed non-empty output on
\* a job of any status, and the output and error_message of a stored job
\* change only in an update_job that carries that field: no status change
\* and no fetch_next_job sets or clears them.
C18_Amended ==
    [][/\ \A j \in DOMAIN jobs \cap DOMAIN jobs' :
            /\ jobs'[j].task_output # jobs[j].task_output
               => (UpdateStep /\ last'.job_id = j
                     /\ "task_output" \in DOMAIN last'.kwargs)
            /\ jobs'[j].error_message # jobs[j].error_message
               => (UpdateStep /\ last'.job_id = j
                     /\ "error_message" \in DOMAIN last'.kwargs)
       /\ (UpdateStep /\ last'.job_id \in DOMAIN jobs)
          => /\ "error_message" \in DOMAIN last'.kwargs
                => jobs'[last'.job_id].error_message = last'.kwargs.error_message
             /\ ("task_output" \in DOMAIN last'.kwargs
                   /\ Truthy(last'.kwargs.task_output))
                => jobs'[last'.job_id].task_output = Dumps(last'.kwargs.task_output)
    ]_vars

\* A job that carries an error_message was completed by an update_job that
\* names only the status: it is completed and still has the error_message.
C18_Witness ==
    /\ last.op = "update"
    /\ DOMAIN last.kwargs = {"status"}
    /\ last.job_id \in DOMAIN jobs
    /\ jobs[last.job_id].status = "completed"
    /\ jobs[last.job_id].error_message = "boom"

\* publish_event was called in this step for job j.
Published(j) ==
    /\ Len(events') = Len(events) + 1
    /\ events'[Len(events')].job_id = j

Connected == bc.kind = "mqtt" /\ bc.connected

\* update_job with a progress value is the step taken, for a stored job.
ProgressStep ==
    /\ UpdateStep
    /\ "progress" \in DOMAIN last'.kwargs
    /\ last'.job_id \in DOMAIN jobs

C20_Original ==
    [][/\ (CallStep("add") /\ last'.job_id \notin DOMAIN jobs)
          => (last'.result = last'.job_id /\ last'.job_id \in DOMAIN jobs')
       /\ UpdateStep
          => last'.result = Bool(last'.job_id \in DOMAIN jobs
                                   /\ Recognized(last'.kwargs))
       /\ \A w \in DOMAIN pc :
             (pc[w] = "claimed" /\ pc'[w] = "idle" /\ ~dirty[w])
             => ret'[w].kind = "job"
    ]_vars

\* ------------------------------------------------------------ the broadcaster

\* update_job with a progress that is not None matched a row in this step.
ProgressMatched ==
    /\ ProgressStep
    /\ last'.kwargs.progress # NULL

BroadcasterStep(op) == mqtt'.res # mqtt.res /\ mqtt'.res.op = op
Target == mqtt.objs[mqtt'.res.who]

\* C22: publish_event reports failure only as a boolean.  On a broadcaster
\* that is disconnected or was never connected it returns false and
\* publishes nothing, it returns false when the transport fails during the
\* publish, and in no state does it raise.
C22_PublishBoolean ==
    [][(BroadcasterStep("publish_event") /\ Target.kind = "mqtt")
       => /\ mqtt'.res.result \in {"true", "false"}
          /\ (~Target.connected \/ Target.client = "None")
             => (mqtt'.res.result = "false" /\ mqtt'.sent = mqtt.sent)
          /\ mqtt'.res.env \in {"rc_error", "exception"}
             => (mqtt'.res.result = "false" /\ mqtt'.sent = mqtt.sent)
          /\ mqtt'.res.result = "true" <=> mqtt'.sent # mqtt.sent
    ]_vars

\* publish_event on a connected broadcaster returned false because the
\* transport raised, after an earlier publish was sent.
C22_Witness ==
    /\ mqtt.res.op = "publish_event"
    /\ mqtt.res.env = "exception"
    /\ mqtt.res.result = "false"
    /\ mqtt.objs[mqtt.res.who].connected
    /\ mqtt.objs[mqtt.res.who].client = "open"
    /\ mqtt.sent # <<>>

\* C23, as stated: a connect() that does not reach the broker returns false
\* without raising and, from any prior state of the broadcaster, leaves it
\* disconnected: connected is false and a following publish_event returns
\* false.
C23_Original ==
    [][(BroadcasterStep("connect") /\ Target.kind = "mqtt"
          /\ mqtt'.res.env = "refused")
       => /\ mqtt'.res.result = "false"
          /\ ~mqtt'.objs[mqtt'.res.who].connected
          /\ \A o \in Transport :
                PublishEventOn(mqtt'.objs[mqtt'.res.who], o).result = "false"
    ]_vars

\* C24, as stated: on the no-op broadcaster connect, publish_event, set_will,
\* publish_retained and clear_retained each return true in every state and
\* never raise.
C24_Original ==
    [][(mqtt'.res # mqtt.res /\ mqtt'.res.who \in DOMAIN mqtt.objs
          /\ Target.kind = "noop"
          /\ mqtt'.res.op \in {"connect", "publish_event", "set_will",
                               "publish_retained", "clear_retained"})
       => mqtt'.res.result = "true"
    ]_vars

\* ------------------------------------------------------ the global broadcaster

\* A get_broadcaster call of module by is the step taken.
GetStep(by) ==
    /\ mqtt'.res # mqtt.res
    /\ mqtt'.res.op = IF by = "mqtt" THEN "mqtt.get_broadcaster"
                      ELSE "mqtt_instance.get_broadcaster"

\* A shutdown_broadcaster call of module by is the step taken.
ShutdownStep(by) ==
    /\ mqtt'.res # mqtt.res
    /\ mqtt'.res.op = IF by = "mqtt" THEN "mqtt.shutdown_broadcaster"
                      ELSE "mqtt_instance.shutdown_broadcaster"

\* The module global _broadcaster of module by, 0 for None.
Global(by) == IF by = "mqtt" THEN mqtt.cached ELSE mqtt.inst
GlobalAfter(by) == IF by = "mqtt" THEN mqtt'.cached ELSE mqtt'.inst

Accessors == {"mqtt", "mqtt_instance"}

\* C25: a get_broadcaster call with the transport type, broker and port of
\* the call that made the cached broadcaster, with no shutdown in between,
\* returns that instance, and neither disconnects nor reconnects it: no
\* object is made or changed.
C25_SingletonReuse ==
    [][\A by \in Accessors :
          (GetStep(by) /\ Global(by) # 0
             /\ mqtt.made[Global(by)].config = mqtt'.res.config)
          => /\ mqtt'.res.who = Global(by)
             /\ GlobalAfter(by) = Global(by)
             /\ mqtt'.objs = mqtt.objs
    ]_vars

\* A second get_broadcaster call with the configuration of the first returned
\* the connected MQTT broadcaster the first had made.
C25_Witness ==
    /\ mqtt.res.op \in {"mqtt.get_broadcaster", "mqtt_instance.get_broadcaster"}
    /\ mqtt.res.seq = 2
    /\ mqtt.res.who = 1
    /\ Len(mqtt.objs) = 1
    /\ mqtt.made[1].config = mqtt.res.config
    /\ mqtt.objs[1].kind = "mqtt"
    /\ mqtt.objs[1].connected

C27_ShutdownThenNew ==
    [][\A by \in Accessors :
          /\ ShutdownStep(by)
             => /\ GlobalAfter(by) = 0
                /\ Global(by) # 0
                   => /\ ~mqtt'.objs[Global(by)].connected
                      /\ mqtt'.objs[Global(by)].client # "open"
          /\ (GetStep(by) /\ Global(by) = 0)
             => /\ mqtt'.res.who = Len(mqtt.objs) + 1
                /\ Len(mqtt'.objs) = Len(mqtt.objs) + 1
                /\ GlobalAfter(by) = mqtt'.res.who
                /\ mqtt'.objs[mqtt'.res.who] =
                      Created(mqtt'.res.config, mqtt'.res.env = "reached")
    ]_vars

\* After a shutdown, get_broadcaster with the configuration used before
\* returned a second, connected broadcaster while the first is disconnected.
C27_Witness ==
    /\ mqtt.res.op \in {"mqtt.get_broadcaster", "mqtt_instance.get_broadcaster"}
    /\ mqtt.res.who = 2
    /\ Len(mqtt.objs) = 2
    /\ mqtt.made[1] = mqtt.made[2]
    /\ mqtt.objs[1].kind = "mqtt"
    /\ mqtt.objs[1].client = "closed" /\ ~mqtt.objs[1].connected
    /\ mqtt.objs[2].connected

\* ------------------------------------------------------------- job storage

\* A call of op on the storage is the step taken.
StorageStep(op) == storage'.res # storage.res /\ storage'.res.op = op

InputDir(j) == JobDir(j) \o <<"input">>
OutputDir(j) == JobDir(j) \o <<"output">>

\* C28, as stated: from any storage state create_directory(job_id) does not
\* raise, leaves jobs/{job_id}/input and jobs/{job_id}/output present, and
\* removes or changes no file and no directory.
C28_Original ==
    [][StorageStep("create_directory")
       => /\ storage'.res.result = "None"
          /\ IsDir(storage', InputDir(storage'.res.job_id))
          /\ IsDir(storage', OutputDir(storage'.res.job_id))
          /\ storage'.files = storage.files
          /\ storage.dirs \subseteq storage'.dirs
    ]_vars

\* A regular file is where create_directory(j) makes a directory.
FileInTheWay(j) ==
    \/ IsFile(storage, JobDir(j))
    \/ IsFile(storage, InputDir(j))
    \/ IsFile(storage, OutputDir(j))

\* C28, amended: from any storage state in which no regular file is at
\* jobs, jobs/{job_id}, jobs/{job_id}/input or jobs/{job_id}/output,
\* create_directory(job_id) does not raise, leaves input and output present,
\* makes nothing but the missing ones of jobs, jobs/{job_id}, input and
\* output, so that a repeated call changes nothing, and removes or changes
\* no file and no directory.  With a regular file at one of the last three
\* paths it raises FileExistsError; no file is removed or changed then either.
C28_Amended ==
    [][StorageStep("create_directory")
       => LET j == storage'.res.job_id
          IN /\ storage'.files = storage.files
             /\ storage.dirs \subseteq storage'.dirs
             /\ storage'.dirs \subseteq
                   storage.dirs \cup {<<"jobs">>, JobDir(j), InputDir(j), OutputDir(j)}
             /\ ~IsFile(storage, <<"jobs">>)
                => IF FileInTheWay(j)
                   THEN storage'.res.result = "FileExistsError"
                   ELSE /\ storage'.res.result = "None"
                        /\ IsDir(storage', InputDir(j))
                        /\ IsDir(storage', OutputDir(j))
    ]_vars

\* create_directory was called for a job that has a saved input file, next
\* to a file of another job, and returned.
C28_Witness ==
    /\ storage.res.op = "create_directory"
    /\ storage.res.result = "None"
    /\ IsFile(storage, InputDir(storage.res.job_id) \o <<"a.bin">>)
    /\ IsDir(storage, OutputDir(storage.res.job_id))
    /\ \E f \in DOMAIN storage.files : ~Under(f, JobDir(storage.res.job_id))

\* C29: remove(job_id) on an existing job directory deletes the whole tree
\* and returns true, so that the job root does not exist and a further remove
\* returns false; remove on a job with no directory returns false and
\* changes nothing on disk.  The trees of other jobs are kept.
C29_Remove ==
    [][StorageStep("remove")
       => LET root == JobDir(storage'.res.job_id)
          IN IF IsDir(storage, root)
             THEN /\ storage'.res.result = "true"
                  /\ \A q \in storage'.dirs \cup DOMAIN storage'.files :
                        ~Under(q, root)
                  /\ storage'.dirs = {d \in storage.dirs : ~Under(d, root)}
                  /\ \A f \in DOMAIN storage.files :
                        ~Under(f, root)
                        => (IsFile(storage', f)
                              /\ storage'.files[f] = storage.files[f])
             ELSE /\ storage'.res.result = "false"
                  /\ storage'.dirs = storage.dirs
                  /\ storage'.files = storage.files
    ]_vars

\* A job tree holding a file was removed while another job's file stays.
C29_Witness ==
    /\ storage.res.op = "remove"
    /\ storage.res.result = "true"
    /\ ~IsDir(storage, JobDir(storage.res.job_id))
    /\ storage.files # <<>>
    /\ \A f \in DOMAIN storage.files : ~Under(f, JobDir(storage.res.job_id))

\* C30: for each source kind, after save returns, the file at
\* jobs/{job_id}/{relative_path} holds exactly the source's bytes in order,
\* SavedFile.size is its length and SavedFile.hash is the digest of the bytes
\* on disk; so equal content gives equal hash and size through all kinds.
C30_HashFidelity ==
    [][(StorageStep("save") /\ storage'.res.result = "SavedJobFile")
       => LET target == TargetPath(storage'.res.job_id, storage'.res.relative_path)
          IN /\ IsFile(storage', target)
             /\ storage'.files[target] =
                   SourceBytes(storage'.res.kind, storage'.res.source)
             /\ storage'.res.size = Len(storage'.files[target])
             /\ storage'.res.hash = Update(Hasher, storage'.files[target])
    ]_vars

\* A stream whose first read was short was saved in two chunks, with the
\* size of a file of the same content that is already stored.
C30_Witness ==
    /\ storage.res.op = "save"
    /\ storage.res.result = "SavedJobFile"
    /\ storage.res.kind = "stream"
    /\ Len(storage.res.source) = 2
    /\ Len(storage.res.source[1]) < ChunkSize
    /\ \E f \in DOMAIN storage.files :
          /\ f # TargetPath(storage.res.job_id, storage.res.relative_path)
          /\ storage.files[f] = Concat(storage.res.source)
          /\ storage.res.size = Len(storage.files[f])

\* Nothing is at the path or above it in place of a directory, and the path
\* itself is not there.
Missing(fs, path) ==
    /\ ~IsDir(fs, path)
    /\ ~IsFile(fs, path)
    /\ \A a \in Ancestors(path) : ~IsFile(fs, a)

\* C31: save with mkdirs false whose target's parent directory is missing
\* fails with a filesystem error (FileNotFoundError) and afterwards neither
\* the parent directory nor the target file exists, nothing else having
\* changed; with mkdirs true the missing parents are made, nothing else is,
\* and the save succeeds.
C31_Mkdirs ==
    [][(StorageStep("save")
          /\ Missing(storage, Parent(TargetPath(storage'.res.job_id,
                                                storage'.res.relative_path))))
       => LET target == TargetPath(storage'.res.job_id, storage'.res.relative_path)
          IN IF storage'.res.mkdirs
             THEN /\ storage'.res.result = "SavedJobFile"
                  /\ IsDir(storage', Parent(target))
                  /\ IsFile(storage', target)
                  /\ storage'.dirs = storage.dirs \cup Ancestors(target)
                  /\ DOMAIN storage'.files = DOMAIN storage.files \cup {target}
             ELSE /\ storage'.res.result = "FileNotFoundError"
                  /\ ~IsDir(storage', Parent(target))
                  /\ ~IsFile(storage', target)
                  /\ storage'.dirs = storage.dirs
                  /\ storage'.files = storage.files
    ]_vars

\* A save without mkdirs failed for want of the parent directory, in a
\* storage where an earlier save with mkdirs made another job's directories.
C31_Witness ==
    /\ storage.res.op = "save"
    /\ ~storage.res.mkdirs
    /\ storage.res.result = "FileNotFoundError"
    /\ ~IsDir(storage, Parent(TargetPath(storage.res.job_id, storage.res.relative_path)))
    /\ \E f \in DOMAIN storage.files :
          /\ ~Under(f, JobDir(storage.res.job_id))
          /\ IsDir(storage, Parent(f))

\* C32: allocate_path returns base_dir/jobs/{job_id}/{relative_path} and
\* writes no content: the files and their contents are as before; with
\* mkdirs false nothing on disk changes, with mkdirs true only missing
\* directories above the path are made, the path itself is not.  It returns
\* the path unless mkdirs is true and a regular file is where a parent
\* directory has to be.  resolve_path changes nothing on disk and returns the
\* job root when relative_path is omitted, the joined path otherwise.
C32_PathsOnly ==
    [][/\ StorageStep("allocate_path")
          => LET target == TargetPath(storage'.res.job_id, storage'.res.relative_path)
             IN /\ storage'.files = storage.files
                /\ storage.dirs \subseteq storage'.dirs
                /\ storage'.dirs \ storage.dirs
                      \subseteq {Norm(a) : a \in Ancestors(target)}
                /\ ~storage'.res.mkdirs => storage'.dirs = storage.dirs
                /\ (~storage'.res.mkdirs
                      \/ \A a \in Ancestors(target) : ~IsFile(storage, a))
                   => /\ storage'.res.result = "Path"
                      /\ storage'.res.path = target
                /\ (storage'.res.mkdirs /\ storage'.res.result = "Path")
                   => IsDir(storage', Parent(target))
       /\ StorageStep("resolve_path")
          => /\ storage'.dirs = storage.dirs
             /\ storage'.files = storage.files
             /\ storage'.res.path =
                   IF storage'.res.relative_path = NoRelativePath
                   THEN JobDir(storage'.res.job_id)
                   ELSE TargetPath(storage'.res.job_id, storage'.res.relative_path)
    ]_vars

\* allocate_path with mkdirs made the parent directory of a path that holds
\* no file, in a storage that holds a file.
C32_Witness ==
    /\ storage.res.op = "allocate_path"
    /\ storage.res.mkdirs
    /\ storage.res.result = "Path"
    /\ storage.res.relative_path = <<"input", "a.bin">>
    /\ IsDir(storage, Parent(storage.res.path))
    /\ ~IsFile(storage, storage.res.path)
    /\ storage.files # <<>>

\* The paths whose presence, kind or content differs between two storages.
ChangedPaths(old, new) ==
    {q \in old.dirs \cup new.dirs : (q \in old.dirs) # (q \in new.dirs)}
        \cup {q \in DOMAIN old.files \cup DOMAIN new.files :
                \/ (q \in DOMAIN old.files) # (q \in DOMAIN new.files)
                \/ (q \in DOMAIN old.files /\ old.files[q] # new.files[q])}

\* C34: for every job id A and every relative_path, create_directory, save,
\* allocate_path and remove called with A create, modify or delete only paths
\* under base_dir/jobs/A (and the jobs directory itself when it is missing):
\* nothing under another job's root or outside the jobs tree changes.
C34_Isolation ==
    [][(StorageStep("create_directory") \/ StorageStep("save")
          \/ StorageStep("allocate_path") \/ StorageStep("remove"))
       => \A q \in ChangedPaths(storage, storage') :
             Under(q, JobDir(storage'.res.job_id)) \/ q = <<"jobs">>
    ]_vars

\* ------------------------------------------------------------- retention

\* The bytes of the files under the given directories.
RECURSIVE TotalSize(_, _)
TotalSize(fs, paths) ==
    IF paths = {} THEN 0
    ELSE LET q == CHOOSE x \in paths : TRUE
         IN Len(fs.files[q]) + TotalSize(fs, paths \ {q})

\* The job directories older than the threshold of the sweep that was made.
Old == {d \in storage.dirs :
          /\ Len(d) = 2 /\ d[1] = "jobs"
          /\ storage.mtime[d] < storage.time - storage'.res.days}

\* C33: cleanup_old_jobs deletes exactly the job directories whose
\* last-modified time is older than the threshold, with all they hold, leaves
\* every other job directory untouched (its directories, files, contents and
\* modification times), and returns the number of directories deleted and the
\* total size in bytes of the files they contained.
C33_RetentionSweep ==
    [][StorageStep("cleanup_old_jobs")
       => /\ storage'.dirs = {d \in storage.dirs : \A o \in Old : ~Under(d, o)}
          /\ DOMAIN storage'.files =
                {f \in DOMAIN storage.files : \A o \in Old : ~Under(f, o)}
          /\ \A f \in DOMAIN storage'.files : storage'.files[f] = storage.files[f]
          /\ \A d \in storage'.dirs :
                Len(d) >= 2 => storage'.mtime[d] = storage.mtime[d]
          /\ storage'.res.count = Cardinality(Old)
          /\ storage'.res.size =
                TotalSize(storage, {f \in DOMAIN storage.files :
                                       \E o \in Old : Under(f, o)})
    ]_vars

\* A sweep deleted one job directory with the file it held and kept a job
\* directory that was modified exactly at the cutoff, with its file.
C33_Witness ==
    /\ storage.res.op = "cleanup_old_jobs"
    /\ storage.res.count = 1
    /\ storage.res.size > 0
    /\ \E d \in JobDirs(storage) :
          /\ storage.mtime[d] = storage.time - storage.res.days
          /\ \E f \in DOMAIN storage.files : Under(f, d)

\* ---------------------------------------------------- concurrent update_job

\* Caller w's update_job with status processing, which read started_at unset,
\* makes its write, after another update_job with status processing on the
\* same job, running at the same time, has returned with started_at set.
SecondStart(w) ==
    /\ pc[w] = "upd_read" /\ pc'[w] = "idle"
    /\ call[w].kwargs = [status |-> "processing"]
    /\ call[w].rd = NULL
    /\ call[w].sel \in DOMAIN jobs
    /\ jobs[call[w].sel].started_at # NULL
    /\ last.op = "update"
    /\ last.job_id = call[w].sel
    /\ last.kwargs = [status |-> "processing"]

\* C35: when two update_job calls with status processing run concurrently on
\* a job whose started_at is unset, whatever the order of their reads and
\* writes, started_at is written by exactly one of them and keeps that value:
\* the write of the call that comes second leaves started_at as the first
\* call set it.
C35_RacedGuard ==
    [][\A w \in DOMAIN pc :
          SecondStart(w)
          => jobs'[call[w].sel].started_at = jobs[call[w].sel].started_at
    ]_vars

\* ------------------------------------------------------------------ polling

\* Caller w's fetch_next_job returns absent because its claiming UPDATE
\* matched no row.
LostRace(w) == pc[w] = "selected" /\ pc'[w] = "idle" /\ ret'[w].kind = "absent"

ConstructedFor(i, config) ==
    /\ mqtt'.made[i].config.broadcast_type = config.broadcast_type
    /\ config.broadcast_type = "mqtt" => mqtt'.made[i].config = config

\* C37: whenever mqtt_instance.get_broadcaster(type, broker, port) returns a
\* broadcaster, it was constructed for that type, broker and port, in every
\* history of get_broadcaster and shutdown_broadcaster calls, those in which
\* disconnecting the old broadcaster or constructing or connecting the new
\* one raised included.
C37_CacheConsistency ==
    [][(GetStep("mqtt_instance") /\ mqtt'.res.who # 0)
       => ConstructedFor(mqtt'.res.who, mqtt'.res.config)
    ]_vars

\* ---------------------------------------------------------- connection flag

\* C38: over any sequence of connect, disconnect and connect-acknowledgement
\* callbacks, connected is true only while the current client's connection
\* stands (the client that connect() made last reached the broker and was
\* not disconnected); it is false after disconnect(), and true after a
\* connect() that succeeded.
C38_ConnectionFlag ==
    /\ [](\A i \in DOMAIN mqtt.objs :
             (mqtt.objs[i].kind = "mqtt" /\ mqtt.objs[i].connected)
             => mqtt.objs[i].client = "open")
    /\ [][/\ (BroadcasterStep("disconnect") /\ Target.kind = "mqtt")
             => ~mqtt'.objs[mqtt'.res.who].connected
          /\ (BroadcasterStep("connect") /\ Target.kind = "mqtt"
                /\ mqtt'.res.result = "true")
             => mqtt'.objs[mqtt'.res.who].connected
       ]_vars


\* The event types published for job j, in the order of the calls.
RECURSIVE TypesOf(_, _)
TypesOf(log, j) ==
    IF log = <<>> THEN <<>>
    ELSE (IF Head(log).job_id = j THEN <<Head(log).event_type>> ELSE <<>>)
         \o TypesOf(Tail(log), j)

\* started, zero or more progress, then exactly one of completed or failed.
RunOrder(types) ==
    /\ Len(types) >= 2
    /\ types[1] = "started"
    /\ types[Len(types)] \in {"completed", "failed"}
    /\ \A k \in 2..(Len(types) - 1) : types[k] = "progress"

RunnerExited == pc[Runner] = "exited"

\* C39: every run of run_compute_job on an existing job that is not killed
\* ends, with the job stored as completed or error and completed_at set, and
\* with the job's events published in the order started, zero or more
\* progress, then exactly one of completed or failed; the stored progress is
\* 100 only when the status is completed.
C39_RunnerOutcome ==
    /\ <>RunnerExited
    /\ [](RunnerExited =>
            /\ jobs[RaceJob].status \in Terminal
            /\ jobs[RaceJob].completed_at # NULL
            /\ RunOrder(TypesOf(events, RaceJob)))
    /\ [](jobs[RaceJob].progress = 100 => jobs[RaceJob].status = "completed")

====
